---- MODULE Spec2Model ----
(***************************************************************************)
(* VoidNexus: the proxy fleet store (ProxyCommander, proxy-core) and the   *)
(* market hunter (NexusHunter, nexus-engine.ts) as one state machine.      *)
(*                                                                         *)
(* Every await of the TypeScript code is a suspension point and ends an    *)
(* action; the synchronous code between two awaits is one action.          *)
(* Money is in whole dollars, multipliers in percent: for every price with *)
(* at most two decimals the IEEE-754 comparison estValue > listedPrice*1.3 *)
(* of the source agrees with the exact comparison, so                      *)
(* estValue * 10 > listedPrice * 13 is that comparison.                    *)
(***************************************************************************)
EXTENDS Integers, Sequences, FiniteSets, TLC

\* ------------------------------------------------------------------ bounds

\* Longest itemSummaries list a marketplace response carries.
MaxItems == 2

\* The sync route's sampleSize (200 in the source), scaled down.
SampleSize == 3

\* The width the sync route passes to validateBatch (50 in the source), scaled down.
Concurrency == 2

\* syncToDatabase's chunkSize (1000 in the source), scaled down.
ChunkSize == 2

\* ------------------------------------------------- environment and inputs

\* process.env.PROXY_HOST when it is set (nexus-engine.ts line 59).
EnvProxyHost == "proxy.env"

\* Candidate endpoints "ip:port", kept as the two halves split(':') yields; a
\* port string is the sequence of its characters.
Endpoints == { [ip |-> "10.0.0.1", portStr |-> <<"8", "0", "8", "0">>],
               [ip |-> "10.0.0.2", portStr |-> <<"3", "1", "2", "8">>] }

\* Round-trip times a successful probe can measure (Date.now() differences).
Latencies == {20, 50}

\* latency: null of a DEAD node.
NullLatency == -1

\* HTTP outcomes of a failed axios.get: a status, or 0 for no response at all
\* (timeout, connection reset: error.response is undefined).
FailStatuses == {403, 503, 500, 0}

\* The failures of a request of the sweeps that run among fleet syncs.
FleetFailStatuses == {403, 0}

\* ---------------------------------------------------------- proxy-core.ts

\* The characters 0-9.
Digits == {"0", "1", "2", "3", "4", "5", "6", "7", "8", "9"}

\* The value of a decimal digit.
DigitValue(c) ==
    CASE c = "0" -> 0 [] c = "1" -> 1 [] c = "2" -> 2 [] c = "3" -> 3 [] c = "4" -> 4
      [] c = "5" -> 5 [] c = "6" -> 6 [] c = "7" -> 7 [] c = "8" -> 8 [] c = "9" -> 9

\* parseInt from character i on, acc being the value of the digits read so far:
\* it stops at the first character that is not a digit.
RECURSIVE ParseIntFrom(_, _, _)
ParseIntFrom(s, i, acc) ==
    IF i > Len(s) \/ s[i] \notin Digits THEN acc
    ELSE ParseIntFrom(s, i + 1, 10 * acc + DigitValue(s[i]))

\* parseInt(portStr, 10) of a string that starts with a digit.
ParseInt(s) ==
    ParseIntFrom(s, 1, 0)

\* PROXY_SOURCES: the five list urls, by their position in the array.
PROXY_SOURCES == 1..5

\* Lines of the lists, each the sequence of its characters.
LineA == <<"1", "0", ".", "0", ".", "0", ".", "1", ":", "8", "0", "8", "0">>

LineB == <<"1", "0", ".", "0", ".", "0", ".", "2", ":", "3", "1", "2", "8">>

\* LineB as a list with padded lines carries it.
LineBPadded == <<" ">> \o LineB \o <<" ">>

\* Four octets and five digits after the colon.
LineC == <<"1", "0", ".", "0", ".", "0", ".", "3", ":", "9", "9", "9", "9", "9">>

LineComment == <<"#", " ", "h", "t", "t", "p">>

LineNoPort == <<"1", "0", ".", "0", ".", "0", ".", "4">>

LineShortPort == <<"1", "0", ".", "0", ".", "0", ".", "4", ":", "8">>

\* res.data.split('\n') of what each source serves when its fetch resolves.
SourceLines(url) ==
    CASE url = 1 -> << LineA, LineBPadded, LineComment >>
      [] url = 2 -> << LineB, LineC, <<>> >>
      [] url = 3 -> << LineA, LineNoPort >>
      [] url = 4 -> << LineShortPort, <<>> >>
      [] url = 5 -> << LineC, LineC >>

\* String.prototype.trim: leading and trailing white space is removed.
RECURSIVE Trim(_)
Trim(line) ==
    IF line # <<>> /\ Head(line) = " " THEN Trim(Tail(line))
    ELSE IF line # <<>> /\ line[Len(line)] = " " THEN Trim(SubSeq(line, 1, Len(line) - 1))
    ELSE line

\* The character at position i of s, "" beyond its end.
CharAt(s, i) ==
    IF i \in 1..Len(s) THEN s[i] ELSE ""

\* The length of the run of digits that starts at position i of s.
RECURSIVE DigitRun(_, _)
DigitRun(s, i) ==
    IF CharAt(s, i) \in Digits THEN 1 + DigitRun(s, i + 1) ELSE 0

\* proxyRegex.test(s) for /^(\d{1,3}\.){3}\d{1,3}:\d{2,5}$/ (line 52): every run of
\* digits is followed by a character that is no digit, so each run is matched whole.
ProxyRegexTest(s) ==
    LET n1 == DigitRun(s, 1)
        p2 == 1 + n1 + 1
        n2 == DigitRun(s, p2)
        p3 == p2 + n2 + 1
        n3 == DigitRun(s, p3)
        p4 == p3 + n3 + 1
        n4 == DigitRun(s, p4)
        p5 == p4 + n4 + 1
        n5 == DigitRun(s, p5)
    IN  /\ n1 \in 1..3 /\ CharAt(s, p2 - 1) = "."
        /\ n2 \in 1..3 /\ CharAt(s, p3 - 1) = "."
        /\ n3 \in 1..3 /\ CharAt(s, p4 - 1) = "."
        /\ n4 \in 1..3 /\ CharAt(s, p5 - 1) = ":"
        /\ n5 \in 2..5 /\ p5 + n5 = Len(s) + 1

\* The strings the callback of lines 54-59 adds to rawProxies for one source.
ValidLines(url) ==
    { Trim(SourceLines(url)[k]) : k \in { j \in 1..Len(SourceLines(url)) :
                                             ProxyRegexTest(Trim(SourceLines(url)[j])) } }

\* Mutant of FetchSource: a failed source discards what the others gave so far.
FetchSourceAborting(raw, url, ok) ==
    IF ok THEN raw \cup ValidLines(url) ELSE {}

\* rawProxies after the callback of lines 46-63 ran for one source: a failed
\* fetch is caught and adds nothing.
FetchSource(raw, url, ok) ==
    IF ok THEN raw \cup ValidLines(url) ELSE raw

\* rawProxies.sort(() => 0.5 - Math.random()) of Array.from(rawProxies): some
\* order of its elements.
Shuffles(raw) ==
    { f \in [1..Cardinality(raw) -> raw] : \A a, b \in 1..Cardinality(raw) : f[a] = f[b] => a = b }

\* Array.prototype.slice(from, to) with 0 <= from (positions counted from 0).
Slice(arr, from, to) ==
    SubSeq(arr, from + 1, IF to < Len(arr) THEN to ELSE Len(arr))

\* Mutant of ChunkPositions: the width does not limit the group.
ChunkPositionsUnbounded(proxies, i, concurrency) ==
    (i + 1)..Len(proxies)

\* The positions (from 1) of proxies.slice(i, i + concurrency), the group whose
\* probes chunk.map starts (lines 78-80).
ChunkPositions(proxies, i, concurrency) ==
    (i + 1)..(IF i + concurrency < Len(proxies) THEN i + concurrency ELSE Len(proxies))

\* The characters of a sequence as one string.
RECURSIVE Join(_)
Join(cs) ==
    IF cs = <<>> THEN "" ELSE Head(cs) \o Join(Tail(cs))

\* The position of the first ':' of s from position i on, Len(s) + 1 without one.
RECURSIVE IndexOfColon(_, _)
IndexOfColon(s, i) ==
    IF i > Len(s) \/ s[i] = ":" THEN i ELSE IndexOfColon(s, i + 1)

\* const [ip, portStr] = proxyStr.split(':') (line 81); the pair also stands for
\* the string itself, the id of the node.
Split(proxyStr) ==
    LET c == IndexOfColon(proxyStr, 1)
        d == IndexOfColon(proxyStr, c + 1)
    IN  [ip |-> Join(SubSeq(proxyStr, 1, c - 1)), portStr |-> SubSeq(proxyStr, c + 1, d - 1)]

\* Mutant of ProbeResult: a failed probe keeps the time it ran as its latency.
ProbeResultDeadWithLatency(proxyStr, ok, latency) ==
    [id |-> proxyStr, ip |-> proxyStr.ip, port |-> ParseInt(proxyStr.portStr),
     protocol |-> "http", status |-> IF ok THEN "ACTIVE" ELSE "DEAD",
     latency |-> IF ok THEN latency ELSE 5000, fail_count |-> IF ok THEN 0 ELSE 1]

\* The node a probe of proxyStr yields: ACTIVE with the measured latency, or DEAD.
ProbeResult(proxyStr, ok, latency) ==
    IF ok
    THEN [id |-> proxyStr, ip |-> proxyStr.ip, port |-> ParseInt(proxyStr.portStr),
          protocol |-> "http", status |-> "ACTIVE", latency |-> latency, fail_count |-> 0]
    ELSE [id |-> proxyStr, ip |-> proxyStr.ip, port |-> ParseInt(proxyStr.portStr),
          protocol |-> "http", status |-> "DEAD", latency |-> NullLatency, fail_count |-> 1]

\* Mutant of Upsert: a plain insert that ignores the conflict on id.
UpsertWithoutConflict(rows, chunk) ==
    rows \cup chunk

\* Mutant of Upsert: the table is replaced by the chunk.
UpsertReplacingTable(rows, chunk) ==
    chunk

\* upsert(chunk, { onConflict: 'id' }): rows of the same id are replaced.
Upsert(rows, chunk) ==
    { r \in rows : \A n \in chunk : n.id # r.id } \cup chunk

\* Mutant of OptimalRows: the query does not order by latency.
OptimalRowsUnordered(rows) ==
    { n \in rows : n.status = "ACTIVE" }

\* .eq('status','ACTIVE').order('latency', asc).limit(1): the rows the query can
\* return first (ties are the database's choice).
OptimalRows(rows) ==
    { n \in rows : /\ n.status = "ACTIVE"
                   /\ \A m \in rows : m.status = "ACTIVE" => n.latency <= m.latency }

\* getOptimalProxy: the set of values it can return, {} standing for null.
\* queryError is the query's own failure; .single() also reports an error for
\* zero rows; and error || !data gives null.
GetOptimalProxy(rows, queryError) ==
    IF ~queryError /\ OptimalRows(rows) # {}
    THEN { {n} : n \in OptimalRows(rows) }
    ELSE { {} }

\* The fleets a store holds at the start: no node, an ACTIVE node, a DEAD node.
Fleets ==
    { {},
      { ProbeResult(CHOOSE e \in Endpoints : e.ip = "10.0.0.1", TRUE, 20) },
      { ProbeResult(CHOOSE e \in Endpoints : e.ip = "10.0.0.2", FALSE, NullLatency) } }

\* -------------------------------------------------------- nexus-engine.ts

\* getSupabase: creating the store handle throws when a credential is missing.
GetSupabaseThrows(creds) == ~creds

\* CONDITION_SCALE[score].multiplier, in percent.
ConditionMultiplier(score) ==
    CASE score = 1 -> 10
      [] score = 2 -> 40
      [] score = 3 -> 65
      [] score = 4 -> 85
      [] score = 5 -> 100

\* The brand list of lines 31-36 ("Hermes" is the source's accented name).
TARGET_BRANDS ==
    << "Hermes", "Chanel", "Louis Vuitton", "Gucci", "Prada", "Dior", "Goyard",
       "Bottega Veneta", "Celine", "Balenciaga", "Fendi", "Saint Laurent",
       "Valentino", "Givenchy", "Burberry", "Chloe", "Loewe", "Miu Miu",
       "Salvatore Ferragamo", "Versace" >>

\* A text is the sequence of its words; the keywords a word holds as substrings.
KeywordsIn(word) ==
    CASE word = "unused" -> {"unused", "used"}
      [] word = "renewed" -> {"renewed", "new"}
      [] OTHER -> {word}

\* String.prototype.toLowerCase, word by word.
ToLowerCase(word) ==
    CASE word = "New" -> "new"
      [] word = "Used" -> "used"
      [] word = "Mint" -> "mint"
      [] OTHER -> word

\* text.includes(keyword)
Includes(text, keyword) ==
    \E i \in 1..Len(text) : keyword \in KeywordsIn(text[i])

\* Mutant of BrandMatch: the last brand of the list the title holds.
BrandMatchLast(title) ==
    LET hits == { k \in 1..Len(TARGET_BRANDS) : Includes(title, TARGET_BRANDS[k]) }
    IN  IF hits = {} THEN 0 ELSE CHOOSE k \in hits : \A j \in hits : k >= j

\* TARGET_BRANDS.find(b => title.includes(b)): the index of the first brand of the
\* list the title holds, 0 for undefined.
BrandMatch(title) ==
    LET hits == { k \in 1..Len(TARGET_BRANDS) : Includes(title, TARGET_BRANDS[k]) }
    IN  IF hits = {} THEN 0 ELSE CHOOSE k \in hits : \A j \in hits : k <= j

\* calculateCondition
CalculateCondition(rawCondition) ==
    LET text == [i \in 1..Len(rawCondition) |-> ToLowerCase(rawCondition[i])]
    IN  IF Includes(text, "new") \/ Includes(text, "mint") THEN 5
        ELSE IF Includes(text, "excellent") THEN 4
        ELSE IF Includes(text, "good") \/ Includes(text, "used") THEN 3
        ELSE IF Includes(text, "fair") \/ Includes(text, "parts") THEN 2
        ELSE 1

\* getBaseValue
GetBaseValue(brand) ==
    IF brand \in {"Hermes", "Chanel"} THEN 5000 ELSE 1500

\* estValue of a listing of this brand and raw condition (lines 101-102).
EstValue(brand, rawCondition) ==
    (GetBaseValue(brand) * ConditionMultiplier(CalculateCondition(rawCondition))) \div 100

\* item.condition || 'used': a missing or empty condition reads as 'used'.
ConditionOrDefault(condition) ==
    IF condition = <<>> THEN <<"used">> ELSE condition

\* Mutant of Admits: the comparison is not strict.
AdmitsAtLeast(estValue, listedPrice) ==
    estValue * 10 >= listedPrice * 13

\* The 30% margin threshold of line 105: estValue > listedPrice * 1.3.
Admits(estValue, listedPrice) ==
    estValue * 10 > listedPrice * 13

\* Mutant of ListedPrice: the price is read without its default, and a listing
\* without price gets a value no estimate exceeds (NaN compares false).
ListedPriceUnguarded(item) ==
    IF item.hasPrice THEN item.price ELSE 1000000

\* Number(item.price?.value || 0) of line 103: 0 for a listing without price.
ListedPrice(item) ==
    IF item.hasPrice /\ item.price # 0 THEN item.price ELSE 0

\* Mutant of SignalOf: the margin is the listed price less the estimated value.
SignalOfMarginReversed(item, brand) ==
    LET raw == ConditionOrDefault(item.condition)
    IN  [id             |-> <<"EBAY", item.itemId>>,
         source         |-> "eBay",
         targetName     |-> item.title,
         brandCategory  |-> brand,
         conditionScore |-> CalculateCondition(raw),
         listedPrice    |-> ListedPrice(item),
         estimatedValue |-> EstValue(brand, raw),
         profitMargin   |-> ListedPrice(item) - EstValue(brand, raw),
         status         |-> "PENDING"]

\* The signal pushed for an admitted item (lines 106-118).
SignalOf(item, brand) ==
    LET raw == ConditionOrDefault(item.condition)
    IN  [id             |-> <<"EBAY", item.itemId>>,
         source         |-> "eBay",
         targetName     |-> item.title,
         brandCategory  |-> brand,
         conditionScore |-> CalculateCondition(raw),
         listedPrice    |-> ListedPrice(item),
         estimatedValue |-> EstValue(brand, raw),
         profitMargin   |-> EstValue(brand, raw) - ListedPrice(item),
         status         |-> "PENDING"]

\* The for loop of lines 98-121 from item i on, acc being the signals pushed so
\* far: a listing without a title makes item.title.includes throw a TypeError,
\* which ends the loop.
RECURSIVE EvaluateFrom(_, _, _)
EvaluateFrom(items, i, acc) ==
    IF i > Len(items) THEN [threw |-> FALSE, signals |-> acc]
    ELSE IF ~items[i].hasTitle THEN [threw |-> TRUE, signals |-> acc]
    ELSE LET k     == BrandMatch(items[i].title)
             brand == TARGET_BRANDS[k]
             est   == EstValue(brand, ConditionOrDefault(items[i].condition))
         IN  IF k # 0 /\ Admits(est, ListedPrice(items[i]))
             THEN EvaluateFrom(items, i + 1, Append(acc, SignalOf(items[i], brand)))
             ELSE EvaluateFrom(items, i + 1, acc)

\* Mutant of EvaluateResponse: itemSummaries is read without the null test, which
\* throws a TypeError on a null response.
EvaluateResponseUnguarded(resp) ==
    IF resp.kind = "items" THEN EvaluateFrom(resp.items, 1, <<>>)
    ELSE [threw |-> resp.kind = "null", signals |-> <<>>]

\* Lines 97-122: nothing is evaluated unless the response carries itemSummaries.
EvaluateResponse(resp) ==
    IF resp.kind = "items" THEN EvaluateFrom(resp.items, 1, <<>>)
    ELSE [threw |-> FALSE, signals |-> <<>>]

\* Mutant of InsertSignals: an upsert by id, the stored row is replaced.
InsertSignalsAsUpsert(rows, batch, dbOk) ==
    LET ids == { batch[i].id : i \in 1..Len(batch) }
    IN  IF dbOk
        THEN [error |-> FALSE, duplicate |-> FALSE,
              rows |-> { r \in rows : r.id \notin ids } \cup { batch[i] : i \in 1..Len(batch) }]
        ELSE [error |-> TRUE, duplicate |-> FALSE, rows |-> rows]

\* Mutant of InsertSignals: the rows are inserted one by one, those without a
\* conflict are stored although the statement reports the error.
InsertSignalsRowByRow(rows, batch, dbOk) ==
    LET ids      == { batch[i].id : i \in 1..Len(batch) }
        conflict == \/ \E r \in rows : r.id \in ids
                    \/ \E i, j \in 1..Len(batch) : i # j /\ batch[i].id = batch[j].id
        fresh    == { batch[i] : i \in { k \in 1..Len(batch) : \A r \in rows : r.id # batch[k].id } }
    IN  IF dbOk /\ ~conflict
        THEN [error |-> FALSE, duplicate |-> FALSE, rows |-> rows \cup fresh]
        ELSE [error |-> TRUE, duplicate |-> dbOk, rows |-> IF dbOk THEN rows \cup fresh ELSE rows]

\* supabase.from('nexus_signals').insert(signals): id is the table's primary key,
\* so the statement fails as a whole when an id is already stored or occurs twice
\* in the batch; it can also fail for reasons of the store's own (dbOk).
InsertSignals(rows, batch, dbOk) ==
    LET ids      == { batch[i].id : i \in 1..Len(batch) }
        conflict == \/ \E r \in rows : r.id \in ids
                    \/ \E i, j \in 1..Len(batch) : i # j /\ batch[i].id = batch[j].id
    IN  IF dbOk /\ ~conflict
        THEN [error |-> FALSE, duplicate |-> FALSE,
              rows |-> rows \cup { batch[i] : i \in 1..Len(batch) }]
        ELSE [error |-> TRUE, duplicate |-> dbOk, rows |-> rows]

\* The record the catch block of runSweep writes to nexus_logs (line 135); of a
\* record the model keeps the level and the function that wrote it, not the text.
SweepFailureLog ==
    [level |-> "ERROR", origin |-> "runSweep"]

\* Mutant of IsBlockingStatus: only 403 is taken for a block.
IsBlockingStatusOnly403(status) ==
    status = 403

\* Mutant of IsBlockingStatus: every error status is taken for a block.
IsBlockingStatusAnyError(status) ==
    status >= 400

\* Cloudflare / WAF detection of line 170.
IsBlockingStatus(status) ==
    status = 403 \/ status = 503

RECURSIVE Pow2(_)
Pow2(n) == IF n = 0 THEN 1 ELSE 2 * Pow2(n - 1)

\* Mutant of BackoffDelay: the exponent is attempt, not attempt - 1.
BackoffDelayFromTwo(att) ==
    1000 * Pow2(att)

\* Line 182: 1000 * Math.pow(2, attempt - 1).
BackoffDelay(att) ==
    1000 * Pow2(att - 1)

\* safeApiCall's default for retries.
Retries == 3

\* axios' proxy option of line 162: the configured host, "" for proxy: false.
AxiosProxy(cfg) ==
    IF cfg.host # "" THEN cfg.host ELSE ""

\* The browser context's proxy option of lines 197-199, "" for undefined.
ContextProxy(cfg) ==
    IF cfg.host # "" THEN cfg.host ELSE ""

\* The constructor's proxyConfig (lines 58-65).
EnvProxyConfig(hostSet) ==
    [host |-> IF hostSet THEN EnvProxyHost ELSE "", port |-> 80, auth |-> TRUE]

\* proxyConfig after proxy selection (lines 80-89); proxy is {} for null.
ConfigAfterSelection(cfg, proxy) ==
    IF proxy # {}
    THEN LET n == CHOOSE n \in proxy : TRUE
         IN  [host |-> n.ip, port |-> n.port, auth |-> FALSE]
    ELSE cfg

\* ---------------------------------------------------- marketplace responses

Items ==
    { [itemId |-> 1, hasTitle |-> TRUE, title |-> <<"Chanel", "flap", "bag">>,
       condition |-> <<"Used">>, hasPrice |-> TRUE, price |-> 2499],
      [itemId |-> 1, hasTitle |-> TRUE, title |-> <<"Chanel", "flap", "bag">>,
       condition |-> <<"Used">>, hasPrice |-> TRUE, price |-> 2500],
      [itemId |-> 2, hasTitle |-> TRUE, title |-> <<"tote", "Gucci", "Chanel">>,
       condition |-> <<>>, hasPrice |-> TRUE, price |-> 0],
      [itemId |-> 2, hasTitle |-> TRUE, title |-> <<"tote", "Gucci", "Chanel">>,
       condition |-> <<>>, hasPrice |-> FALSE, price |-> 0],
      [itemId |-> 2, hasTitle |-> TRUE, title |-> <<"vintage", "bag">>,
       condition |-> <<"Mint">>, hasPrice |-> TRUE, price |-> 10],
      [itemId |-> 2, hasTitle |-> FALSE, title |-> <<>>,
       condition |-> <<"New">>, hasPrice |-> TRUE, price |-> 10] }

ItemLists ==
    UNION { [1..n -> Items] : n \in 0..MaxItems }

\* response.data of a successful request: with itemSummaries, or without.
Responses ==
    { [kind |-> "items", items |-> l] : l \in ItemLists }
        \cup { [kind |-> "noitems", items |-> <<>>] }

\* The responses of the sweeps that run among fleet syncs.
FleetResponses ==
    { [kind |-> "noitems", items |-> <<>>],
      [kind |-> "items", items |-> <<>>] }

\* null, the "no data" of safeApiCall and scrapeWithPlaywright.
NoData == [kind |-> "null", items |-> <<>>]

\* What scrapeWithPlaywright returns for the eBay url (lines 218-220).
BypassData == [kind |-> "items", items |-> <<>>]

\* ------------------------------------------------------------------ state

VARIABLES
    credentials,    \* both store credentials are set in the environment
    envProxy,       \* PROXY_HOST is set in the environment
    nexus_proxies,  \* table nexus_proxies: a set of ProxyNode rows
    nexus_signals,  \* table nexus_signals: a set of MarketSignal rows
    nexus_logs,     \* table nexus_logs: the distinct records
    proxyConfig,    \* NexusHunter.proxyConfig
    pc,             \* where the running sweep is suspended
    selectError,    \* the select of getOptimalProxy failed in the store
    proxy,          \* runSweep's proxy: {} for null, {node} otherwise
    attempt,        \* safeApiCall's attempt
    statuses,       \* outcome of each request of this fetch, 200 for success
    delays,         \* the backoff delays waited in this fetch, in order
    bypasses,       \* the bypass invocations of this fetch
    routes,         \* the proxy of each request and browser context of this sweep
    browser,        \* scrapeWithPlaywright's browser is defined
    sessions,       \* browser sessions launched and not closed
    bypassData,     \* what the running bypass will return
    response,       \* what safeApiCall returned
    signals,        \* runSweep's signals
    errorMsg,       \* the message of the error runSweep caught
    result,         \* how the sweep ended
    spc,            \* where the running fleet sync request is suspended
    pending,        \* scrapeSources: the sources whose fetch has not settled
    succeeded,      \* scrapeSources: the sources whose fetch resolved
    rawProxies,     \* scrapeSources' rawProxies, then the array the route has of it
    targetBatch,    \* the sync route's targetBatch
    vi,             \* validateBatch's i
    inflight,       \* validateBatch: positions of targetBatch whose probe is in flight
    chunkResults,   \* validateBatch: the nodes of the settled probes of the group
    results,        \* validateBatch's results, then syncToDatabase's nodes
    si,             \* syncToDatabase's i
    syncErrors,     \* syncToDatabase: whether each upsert so far reported an error
    syncStatus,     \* HTTP status of the sync route's last response, 0 for none
    xpc,            \* where the running execute request is suspended
    signalId,       \* the execute request's signalId
    executeStatus,  \* HTTP status of the execute route's last response, 0 for none
    sweepAuth,      \* the authorization header of the sweep route's last request
    sweepStatus,    \* HTTP status of the sweep route's last response, 0 for none
    sweepRouted,    \* the running sweep was started by the sweep route
    syncAuth,       \* the authorization header of the sync route's last request
    syncRouted,     \* the running fleet sync was started by the sync route
    summary,        \* the summary of the sync route's last response: {} without one
    page,           \* the dashboard: unmounted, offline (no client) or subscribed
    initial,        \* the dashboard's fetchInitial has not settled
    isGodMode,      \* the dashboard's isGodMode state
    handlerGodMode, \* the isGodMode of the render whose handler is subscribed
    notices,        \* the change events of nexus_signals not yet delivered
    dashSignals,    \* the dashboard's signals state
    executing       \* the dashboard's executing state, by signal id

vars == << credentials, envProxy, nexus_proxies, nexus_signals, nexus_logs,
           proxyConfig, pc, selectError, proxy, attempt, statuses, delays, bypasses, routes,
           browser, sessions, bypassData, response, signals, errorMsg, result,
           spc, pending, succeeded, rawProxies, targetBatch, vi, inflight,
           chunkResults, results, si, syncErrors, syncStatus,
           xpc, signalId, executeStatus,
           sweepAuth, sweepStatus, sweepRouted, syncAuth, syncRouted, summary,
           page, initial, isGodMode, handlerGodMode, notices, dashSignals, executing >>

env    == << credentials, envProxy >>
fetch  == << attempt, statuses, delays, bypasses >>
stores == << nexus_proxies, nexus_signals, nexus_logs >>
trigger  == << sweepAuth, sweepStatus, sweepRouted >>
syncCall == << syncAuth, syncRouted, summary >>
dash   == << page, initial, isGodMode, handlerGodMode, notices, dashSignals, executing >>
sync   == << spc, pending, succeeded, rawProxies, targetBatch, vi, inflight,
             chunkResults, results, si, syncErrors, syncStatus, syncCall >>
exec   == << xpc, signalId, executeStatus >>
sweep  == << proxyConfig, pc, selectError, proxy, fetch, routes, browser, sessions,
             bypassData, response, signals, errorMsg, result, trigger >>

NoResult == [kind |-> "none", value |-> <<>>]

\* The state after construction of one NexusHunter, over the fleet a store holds.
InitOver(fleets) ==
    /\ credentials \in BOOLEAN
    /\ envProxy \in BOOLEAN
    /\ nexus_proxies \in IF credentials THEN fleets ELSE {{}}
    /\ nexus_signals = {}
    /\ nexus_logs = {}
    /\ proxyConfig = EnvProxyConfig(envProxy)
    /\ pc = "idle"
    /\ selectError = FALSE
    /\ proxy = {}
    /\ attempt = 1
    /\ statuses = <<>>
    /\ delays = <<>>
    /\ bypasses = <<>>
    /\ routes = {}
    /\ browser = FALSE
    /\ sessions = 0
    /\ bypassData = NoData
    /\ response = NoData
    /\ signals = <<>>
    /\ errorMsg = ""
    /\ result = NoResult
    /\ spc = "idle"
    /\ pending = {}
    /\ succeeded = {}
    /\ rawProxies = {}
    /\ targetBatch = <<>>
    /\ vi = 0
    /\ inflight = {}
    /\ chunkResults = <<>>
    /\ results = <<>>
    /\ si = 0
    /\ syncErrors = <<>>
    /\ syncStatus = 0
    /\ xpc = "idle"
    /\ signalId = <<>>
    /\ executeStatus = 0
    /\ sweepAuth = ""
    /\ sweepStatus = 0
    /\ sweepRouted = FALSE
    /\ syncAuth = ""
    /\ syncRouted = FALSE
    /\ summary = {}
    /\ page = "unmounted"
    /\ initial = FALSE
    /\ isGodMode = FALSE
    /\ handlerGodMode = FALSE
    /\ notices = <<>>
    /\ dashSignals = <<>>
    /\ executing = <<>>

Init == InitOver(Fleets)

FleetInit == InitOver({{}})

\* --------------------------------------------------------- fleet sync route

\* One fleet sync: the harvested sample is probed (validateBatch) and the nodes
\* are upserted in one chunk (syncToDatabase), whose error is only logged.
FleetSync ==
    /\ credentials
    /\ \E sample \in (SUBSET Endpoints) \ {{}} :
       \E probe \in [sample -> Latencies \cup {NullLatency}], dbOk \in BOOLEAN :
          LET nodes == { ProbeResult(e, probe[e] # NullLatency, probe[e]) : e \in sample }
          IN  nexus_proxies' = IF dbOk THEN Upsert(nexus_proxies, nodes) ELSE nexus_proxies
    /\ UNCHANGED << env, dash, sync, exec, trigger, nexus_signals, nexus_logs, proxyConfig, pc, selectError, proxy, fetch, routes,
                    browser, sessions, bypassData, response, signals, errorMsg, result >>

\* The record the sync route writes to nexus_logs on success (lines 51-55).
SyncLog ==
    [level |-> "INFO", origin |-> "proxySync"]

\* expectedKey of the routes: the environment sets no key, the default is used.
ExpectedKey == "demo-key"

\* The authorization headers of the requests, "" for a request without one.
AuthHeaders == { "Bearer demo-key", "demo-key", "" }

\* Mutant of Authorized: the key is accepted without its scheme too.
AuthorizedByKey(header) ==
    header \in { "Bearer " \o ExpectedKey, ExpectedKey }

\* The negation of the routes' test authHeader !== `Bearer ${expectedKey}`.
Authorized(header) ==
    header = "Bearer " \o ExpectedKey

\* POST /api/proxies/sync up to its first await (route lines 13-34, scrapeSources
\* lines 42-48): without credentials it answers 500, without the bearer key 401;
\* otherwise the five list requests are issued.
SyncRequest ==
    /\ spc = "idle"
    /\ \E header \in AuthHeaders :
          /\ syncAuth' = header
          /\ IF ~credentials \/ ~Authorized(header)
             THEN /\ syncStatus' = (IF ~credentials THEN 500 ELSE 401)
                  /\ UNCHANGED << spc, pending, syncRouted >>
             ELSE /\ syncStatus' = 0
                  /\ spc' = "scrape"
                  /\ pending' = PROXY_SOURCES
                  /\ syncRouted' = TRUE
    /\ succeeded' = {}
    /\ rawProxies' = {}
    /\ summary' = {}
    /\ UNCHANGED << env, dash, stores, sweep, exec, targetBatch, vi, inflight, chunkResults, results,
                    si, syncErrors >>

\* The pipeline of route lines 31-46 (scrapeSources, validateBatch,
\* syncToDatabase on a new ProxyCommander) run by a caller that is not the route:
\* no method of the class looks at the credentials before syncToDatabase does.
CommanderSync ==
    /\ spc = "idle"
    /\ spc' = "scrape"
    /\ pending' = PROXY_SOURCES
    /\ succeeded' = {}
    /\ rawProxies' = {}
    /\ UNCHANGED << env, dash, stores, sweep, exec, syncCall, targetBatch, vi, inflight, chunkResults,
                    results, si, syncErrors, syncStatus >>

\* Where the fleet sync goes on when syncToDatabase has returned: the route
\* writes its log record, any other caller has the pipeline's outcome.
Persisted ==
    IF syncRouted THEN "log" ELSE "returned"

\* syncToDatabase up to its first await (lines 127-136): getSupabase() throws
\* without credentials; without nodes there is no upsert and it returns.
SyncToDatabase(nodes) ==
    IF GetSupabaseThrows(credentials) THEN "thrown"
    ELSE IF nodes = <<>> THEN Persisted
    ELSE "persist"

\* The list request of one source settles and its callback runs (lines 46-63);
\* only the sources of reachable can answer.
SourceSettlesAmong(reachable) ==
    /\ spc = "scrape"
    /\ \E url \in pending, ok \in BOOLEAN :
          /\ ok => url \in reachable
          /\ pending' = pending \ {url}
          /\ succeeded' = (IF ok THEN succeeded \cup {url} ELSE succeeded)
          /\ rawProxies' = FetchSource(rawProxies, url, ok)
    /\ UNCHANGED << env, dash, stores, sweep, exec, syncCall, spc, targetBatch, vi, inflight, chunkResults, results,
                    si, syncErrors, syncStatus >>

SourceSettles == SourceSettlesAmong(PROXY_SOURCES)

\* Promise.allSettled resolves (lines 65-67); the route shuffles and samples
\* (route lines 38-40) and validateBatch starts the probes of its first group
\* (lines 72-119); the route keeps the harvest (route line 34). With nothing harvested
\* validateBatch and syncToDatabase have nothing to await and the route goes on
\* to its log record.
Harvested ==
    /\ spc = "scrape"
    /\ pending = {}
    /\ \E shuffled \in Shuffles(rawProxies) :
          /\ targetBatch' = Slice(shuffled, 0, SampleSize)
          /\ inflight' = ChunkPositions(targetBatch', 0, Concurrency)
    /\ vi' = 0
    /\ chunkResults' = <<>>
    /\ results' = <<>>
    /\ si' = 0
    /\ syncErrors' = <<>>
    /\ spc' = (IF targetBatch' = <<>> THEN SyncToDatabase(<<>>) ELSE "validate")
    /\ succeeded' = {}
    /\ UNCHANGED << env, dash, stores, sweep, exec, syncCall, pending, rawProxies, syncStatus >>

\* Mutant of ChunkNodes: the node of the group's last endpoint is dropped.
ChunkNodesDroppingLast(settled, positions) ==
    [k \in 1..(Cardinality(positions) - 1) |->
        settled[CHOOSE j \in positions : Cardinality({ m \in positions : m < j }) = k - 1]]

\* The node of position j of the group, once all its probes have settled.
ChunkNodes(settled, positions) ==
    [k \in 1..Cardinality(positions) |->
        settled[CHOOSE j \in positions : Cardinality({ m \in positions : m < j }) = k - 1]]

\* The probe of one endpoint of the group settles (lines 85-116). With the last
\* one Promise.all resolves: the group's nodes are pushed in the group's order and
\* the next group is started, or validateBatch returns and syncToDatabase issues
\* its first upsert (lines 119-136).
ProbeSettles ==
    /\ spc = "validate"
    /\ \E j \in inflight, probe \in Latencies \cup {NullLatency} :
          \E node \in { ProbeResult(Split(targetBatch[j]), probe # NullLatency, probe) } :
          \E settled \in { [k \in DOMAIN chunkResults \cup {j} |->
                              IF k = j THEN node ELSE chunkResults[k]] } :
              /\ inflight \ {j} # {} =>
                    /\ inflight' = inflight \ {j}
                    /\ chunkResults' = settled
                    /\ UNCHANGED << vi, results, spc >>
              /\ inflight \ {j} = {} =>
                    /\ results' = results \o ChunkNodes(settled, DOMAIN settled)
                    /\ vi' = vi + Concurrency
                    /\ chunkResults' = <<>>
                    /\ inflight' = (IF vi' < Len(targetBatch)
                                    THEN ChunkPositions(targetBatch, vi', Concurrency)
                                    ELSE {})
                    /\ spc' = (IF vi' < Len(targetBatch) THEN "validate"
                                                          ELSE SyncToDatabase(results'))
    /\ UNCHANGED << env, dash, stores, sweep, exec, syncCall, pending, succeeded, rawProxies, targetBatch,
                    si, syncErrors, syncStatus >>

\* Mutant of AfterUpsert: an upsert's error ends syncToDatabase.
AfterUpsertStopsOnError(error) ==
    spc' = (IF ~error /\ si + ChunkSize < Len(results) THEN "persist" ELSE Persisted)

\* Mutant of AfterUpsert: an upsert's error is thrown to the caller.
AfterUpsertThrowsOnError(error) ==
    spc' = (IF error THEN "thrown"
            ELSE IF si + ChunkSize < Len(results) THEN "persist" ELSE Persisted)

\* Lines 138-141 and the loop test of line 132: the error is logged, and the loop
\* goes on while nodes are left.
AfterUpsert(error) ==
    spc' = (IF si + ChunkSize < Len(results) THEN "persist" ELSE Persisted)

\* The upsert of one chunk settles (lines 132-141): its error is only logged, and
\* the next chunk's upsert is issued, or syncToDatabase returns. The store
\* answers with one of outcomes, TRUE for success.
UpsertSettlesWith(outcomes) ==
    /\ spc = "persist"
    /\ \E dbOk \in outcomes :
          LET chunk == Slice(results, si, si + ChunkSize)
          IN  /\ nexus_proxies' = (IF dbOk
                                   THEN Upsert(nexus_proxies, { chunk[k] : k \in 1..Len(chunk) })
                                   ELSE nexus_proxies)
              /\ syncErrors' = Append(syncErrors, ~dbOk)
              /\ AfterUpsert(~dbOk)
    /\ si' = si + ChunkSize
    /\ UNCHANGED << env, dash, nexus_signals, nexus_logs, sweep, exec, syncCall, pending, succeeded, rawProxies,
                    targetBatch, vi, inflight, chunkResults, results, syncStatus >>

UpsertSettles == UpsertSettlesWith(BOOLEAN)

\* The record the sync route's catch block writes to nexus_logs (lines 67-71).
SyncCrashLog ==
    [level |-> "ERROR", origin |-> "proxySync"]

\* validatedNodes.filter(n => n.status === 'ACTIVE').length (route line 48).
ActiveCount(nodes) ==
    Cardinality({ k \in 1..Len(nodes) : nodes[k].status = "ACTIVE" })

\* The counts of the route's 200 response (route lines 57-63): tested is
\* sampleSize itself.
SyncSummary(raw, batch, nodes) ==
    [scrapedTotal |-> Cardinality(raw), tested |-> SampleSize,
     activeFound |-> ActiveCount(nodes)]

\* The route's log insert resolves and the route answers: 200 with its summary
\* after its INFO record (route lines 48-63), 500 after the ERROR record of its
\* catch block (lines 65-73).
SyncComplete ==
    /\ spc = "log" \/ (spc = "thrown" /\ syncRouted)
    /\ \E dbOk \in BOOLEAN :
          nexus_logs' = (IF ~dbOk THEN nexus_logs
                         ELSE IF spc = "log" THEN nexus_logs \cup {SyncLog}
                         ELSE nexus_logs \cup {SyncCrashLog})
    /\ syncStatus' = (IF spc = "log" THEN 200 ELSE 500)
    /\ summary' = (IF spc = "log" THEN {SyncSummary(rawProxies, targetBatch, results)} ELSE {})
    /\ spc' = "idle"
    /\ rawProxies' = {}
    /\ targetBatch' = <<>>
    /\ results' = <<>>
    /\ vi' = 0
    /\ si' = 0
    /\ syncErrors' = <<>>
    /\ syncRouted' = FALSE
    /\ UNCHANGED << env, dash, nexus_proxies, nexus_signals, sweep, exec, syncAuth, pending, succeeded,
                    inflight, chunkResults >>

\* The caller of CommanderSync has the pipeline's outcome, the nodes or
\* syncToDatabase's error; the pipeline's locals are gone.
CommanderReturns ==
    /\ spc \in {"returned", "thrown"}
    /\ ~syncRouted
    /\ spc' = "idle"
    /\ targetBatch' = <<>>
    /\ results' = <<>>
    /\ vi' = 0
    /\ si' = 0
    /\ syncErrors' = <<>>
    /\ rawProxies' = {}
    /\ UNCHANGED << env, dash, stores, sweep, exec, syncCall, pending, succeeded, inflight,
                    chunkResults, syncStatus >>

\* -------------------------------------------------------------- sweep route

\* The records the sweep route writes to nexus_logs (lines 33-37, 45-49, 67-71).
SweepRouteLog(level) ==
    [level |-> level, origin |-> "sweepRoute"]

\* POST /api/nexus/sweep up to its first await (route lines 13-49): without
\* credentials it answers 500; without the bearer key it issues its WARN record;
\* otherwise it makes a new NexusHunter and issues its INFO record.
SweepRequest ==
    /\ pc = "idle"
    /\ \E header \in AuthHeaders :
          /\ sweepAuth' = header
          /\ IF ~credentials
             THEN /\ sweepStatus' = 500
                  /\ UNCHANGED << pc, sweepRouted, proxyConfig >>
             ELSE /\ sweepStatus' = 0
                  /\ sweepRouted' = TRUE
                  /\ IF Authorized(header)
                     THEN /\ pc' = "start"
                          /\ proxyConfig' = EnvProxyConfig(envProxy)
                     ELSE /\ pc' = "reject"
                          /\ UNCHANGED proxyConfig
    /\ UNCHANGED << env, dash, sync, exec, stores, selectError, proxy, fetch, routes, browser, sessions,
                    bypassData, response, signals, errorMsg, result >>

\* The WARN record's insert resolves and the route answers 401 (lines 33-38).
SweepRejected ==
    /\ pc = "reject"
    /\ \E dbOk \in BOOLEAN :
          nexus_logs' = (IF dbOk THEN nexus_logs \cup {SweepRouteLog("WARN")} ELSE nexus_logs)
    /\ sweepStatus' = 401
    /\ sweepRouted' = FALSE
    /\ pc' = "idle"
    /\ UNCHANGED << env, dash, sync, exec, sweepAuth, nexus_proxies, nexus_signals, proxyConfig, selectError,
                    proxy, fetch, routes, browser, sessions, bypassData, response, signals,
                    errorMsg, result >>

\* The INFO record's insert resolves and the route calls runSweep (lines 45-52),
\* which runs up to its first await as in RunSweep.
SweepStarted ==
    /\ pc = "start"
    /\ \E dbOk \in BOOLEAN :
          nexus_logs' = (IF dbOk THEN nexus_logs \cup {SweepRouteLog("INFO")} ELSE nexus_logs)
    /\ IF GetSupabaseThrows(credentials)
       THEN /\ pc' = "thrown"
            /\ result' = [kind |-> "thrown", value |-> <<>>]
       ELSE /\ pc' = "select"
            /\ result' = NoResult
    /\ UNCHANGED << env, dash, sync, exec, trigger, nexus_proxies, nexus_signals, proxyConfig, selectError,
                    proxy, fetch, routes, browser, sessions, bypassData, response, signals,
                    errorMsg >>

\* ------------------------------------------------------------- NexusHunter

\* new NexusHunter(): the next sweep runs on a fresh instance.
NewHunter ==
    /\ pc = "idle"
    /\ proxyConfig' = EnvProxyConfig(envProxy)
    /\ UNCHANGED << env, dash, sync, exec, trigger, stores, pc, selectError, proxy, fetch, routes, browser, sessions,
                    bypassData, response, signals, errorMsg, result >>

\* runSweep up to its first await (lines 69-79): getSupabase() is called before
\* the try block, so its error leaves runSweep.
RunSweep ==
    /\ pc = "idle"
    /\ IF GetSupabaseThrows(credentials)
       THEN /\ pc' = "thrown"
            /\ result' = [kind |-> "thrown", value |-> <<>>]
       ELSE /\ pc' = "select"
            /\ result' = NoResult
    /\ UNCHANGED << env, dash, sync, exec, trigger, stores, proxyConfig, selectError, proxy, fetch, routes, browser, sessions,
                    bypassData, response, signals, errorMsg >>

\* getOptimalProxy resolves (lines 79-89), and safeApiCall issues its first request.
SelectProxy ==
    /\ pc = "select"
    /\ \E queryError \in BOOLEAN : \E p \in GetOptimalProxy(nexus_proxies, queryError) :
          /\ selectError' = queryError
          /\ proxy' = p
          /\ proxyConfig' = ConfigAfterSelection(proxyConfig, p)
    /\ pc' = "request"
    /\ attempt' = 1
    /\ UNCHANGED << env, dash, sync, exec, trigger, stores, statuses, delays, bypasses, routes, browser, sessions,
                    bypassData, response, signals, errorMsg, result >>

\* Mutant of AfterFailure: the retry limit is tested one attempt early.
AfterFailureOneEarly ==
    IF attempt >= Retries - 1
    THEN /\ pc' = "evaluate"
         /\ response' = NoData
    ELSE /\ pc' = "backoff"
         /\ UNCHANGED response

\* Mutant of AfterFailure: a failed attempt ends the fetch.
AfterFailureTerminal ==
    /\ pc' = "evaluate"
    /\ response' = NoData

\* Lines 176-184, reached after a failed attempt whose bypass (if any) gave no
\* data: the last attempt returns null, any other one starts its backoff delay.
AfterFailure ==
    IF attempt = Retries
    THEN /\ pc' = "evaluate"
         /\ response' = NoData
    ELSE /\ pc' = "backoff"
         /\ UNCHANGED response

\* axios.get resolves with one of datas: safeApiCall returns response.data
\* (lines 160-164).
ApiResolves(datas) ==
    /\ pc = "request"
    /\ \E data \in datas : response' = data
    /\ statuses' = Append(statuses, 200)
    /\ routes' = routes \cup { [kind |-> "request", via |-> AxiosProxy(proxyConfig)] }
    /\ pc' = "evaluate"
    /\ UNCHANGED << env, dash, sync, exec, trigger, stores, proxyConfig, selectError, proxy, attempt, delays, bypasses, browser,
                    sessions, bypassData, signals, errorMsg, result >>

\* axios.get rejects with one of failures (lines 165-179): a blocking status
\* starts the bypass, whose first await is chromium.launch.
ApiRejects(failures) ==
    /\ pc = "request"
    /\ routes' = routes \cup { [kind |-> "request", via |-> AxiosProxy(proxyConfig)] }
    /\ \E status \in failures :
          /\ statuses' = Append(statuses, status)
          /\ IF IsBlockingStatus(status)
             THEN /\ pc' = "launch"
                  /\ bypasses' = Append(bypasses, [attempt |-> attempt, delaysBefore |-> Len(delays)])
                  /\ UNCHANGED response
             ELSE /\ AfterFailure
                  /\ UNCHANGED bypasses
    /\ UNCHANGED << env, dash, sync, exec, trigger, stores, proxyConfig, selectError, proxy, attempt, delays, browser, sessions,
                    bypassData, signals, errorMsg, result >>

\* Mutant of Backoff: the loop's counter is not advanced.
BackoffWithoutCount ==
    /\ pc = "backoff"
    /\ delays' = Append(delays, BackoffDelay(attempt))
    /\ attempt' = attempt
    /\ pc' = "request"
    /\ UNCHANGED << env, dash, sync, exec, trigger, stores, proxyConfig, selectError, proxy, statuses, bypasses, routes, browser,
                    sessions, bypassData, response, signals, errorMsg, result >>

\* The backoff delay of lines 182-184 elapses and the next attempt is issued.
Backoff ==
    /\ pc = "backoff"
    /\ delays' = Append(delays, BackoffDelay(attempt))
    /\ attempt' = attempt + 1
    /\ pc' = "request"
    /\ UNCHANGED << env, dash, sync, exec, trigger, stores, proxyConfig, selectError, proxy, statuses, bypasses, routes, browser,
                    sessions, bypassData, response, signals, errorMsg, result >>

\* ---------------------------------------------------- scrapeWithPlaywright

\* error.message of a rejected browser.close().
CloseError == "browser.close failed"

\* error.message of the TypeError item.title.includes raises on a missing title.
TitleError == "Cannot read properties of undefined"

\* The message of the error thrown at line 127.
InsertError == "Supabase Insert Failed"

\* That message when the store's error is the violation of the primary key.
DuplicateKeyError == "Supabase Insert Failed: duplicate key value"

\* Mutant of StepFails: the browser is closed on the success path only.
StepFailsWithoutClose ==
    /\ bypassData' = NoData
    /\ AfterFailure

\* A step between launch and return throws (lines 223-228): the catch block makes
\* the bypass return null, and the finally block closes the launched browser first.
StepFails ==
    /\ bypassData' = NoData
    /\ pc' = "close"
    /\ UNCHANGED response

\* chromium.launch (line 194). When it rejects, browser is undefined, nothing is
\* closed, and the bypass returns null to safeApiCall at once.
Launch ==
    /\ pc = "launch"
    /\ \E ok \in BOOLEAN :
          IF ok
          THEN /\ browser' = TRUE
               /\ sessions' = sessions + 1
               /\ pc' = "context"
               /\ UNCHANGED response
          ELSE /\ AfterFailure
               /\ UNCHANGED << browser, sessions >>
    /\ bypassData' = NoData
    /\ UNCHANGED << env, dash, sync, exec, trigger, stores, proxyConfig, selectError, proxy, fetch, routes, signals, errorMsg, result >>

\* browser.newContext with the proxy option (lines 195-200).
NewContext ==
    /\ pc = "context"
    /\ \E ok \in BOOLEAN :
          IF ok
          THEN /\ routes' = routes \cup { [kind |-> "session", via |-> ContextProxy(proxyConfig)] }
               /\ pc' = "goto"
               /\ UNCHANGED << bypassData, response >>
          ELSE /\ StepFails
               /\ UNCHANGED routes
    /\ UNCHANGED << env, dash, sync, exec, trigger, stores, proxyConfig, selectError, proxy, fetch, browser, sessions, signals,
                    errorMsg, result >>

\* context.newPage and page.goto with its 15 s timeout (lines 202-205).
Navigate ==
    /\ pc = "goto"
    /\ \E ok \in BOOLEAN :
          IF ok
          THEN /\ pc' = "interact"
               /\ UNCHANGED << bypassData, response >>
          ELSE StepFails
    /\ UNCHANGED << env, dash, sync, exec, trigger, stores, proxyConfig, selectError, proxy, fetch, routes, browser, sessions,
                    signals, errorMsg, result >>

\* The pointer sequence and the settle period (lines 208-212).
Interact ==
    /\ pc = "interact"
    /\ \E ok \in BOOLEAN :
          IF ok
          THEN /\ pc' = "content"
               /\ UNCHANGED << bypassData, response >>
          ELSE StepFails
    /\ UNCHANGED << env, dash, sync, exec, trigger, stores, proxyConfig, selectError, proxy, fetch, routes, browser, sessions,
                    signals, errorMsg, result >>

\* page.content and the return of lines 214-222; the finally block still runs.
Capture ==
    /\ pc = "content"
    /\ \E ok \in BOOLEAN :
          IF ok
          THEN /\ bypassData' = BypassData
               /\ pc' = "close"
               /\ UNCHANGED response
          ELSE StepFails
    /\ UNCHANGED << env, dash, sync, exec, trigger, stores, proxyConfig, selectError, proxy, fetch, routes, browser, sessions,
                    signals, errorMsg, result >>

\* finally { if (browser) await browser.close() } (lines 226-228). A rejected
\* close() replaces the bypass's return value by its error, which leaves
\* safeApiCall from inside its own catch block and reaches runSweep's catch.
\* sessions counts the sessions close() was not called on.
Close ==
    /\ pc = "close"
    /\ browser
    /\ browser' = FALSE
    /\ sessions' = sessions - 1
    /\ \E ok \in BOOLEAN :
          IF ~ok
          THEN /\ pc' = "catch"
               /\ errorMsg' = CloseError
               /\ UNCHANGED response
          ELSE /\ UNCHANGED errorMsg
               /\ IF bypassData # NoData
                  THEN /\ pc' = "evaluate"
                       /\ response' = bypassData
                  ELSE AfterFailure
    /\ UNCHANGED << env, dash, sync, exec, trigger, stores, proxyConfig, selectError, proxy, fetch, routes, bypassData, signals, result >>

\* ------------------------------------------------- runSweep after the fetch

\* Lines 97-130: runSweep resumes with what safeApiCall returned, whose frame
\* (attempt, and the record of its requests, delays and bypasses) is gone; the
\* items are evaluated, and with no signal the sweep returns here.
Evaluate ==
    /\ pc = "evaluate"
    /\ LET r == EvaluateResponse(response)
       IN  /\ signals' = r.signals
           /\ IF r.threw
              THEN /\ pc' = "catch"
                   /\ errorMsg' = TitleError
                   /\ UNCHANGED result
              ELSE /\ UNCHANGED errorMsg
                   /\ IF Len(r.signals) > 0
                      THEN /\ pc' = "insert"
                           /\ UNCHANGED result
                      ELSE /\ pc' = "done"
                           /\ result' = [kind |-> "returned", value |-> r.signals]
    /\ attempt' = 1
    /\ statuses' = <<>>
    /\ delays' = <<>>
    /\ bypasses' = <<>>
    /\ bypassData' = NoData
    /\ UNCHANGED << env, dash, sync, exec, trigger, stores, proxyConfig, selectError, proxy, routes, browser, sessions, response >>

\* The change events of nexus_signals after a statement: the store sends one
\* event per written row to the channel of a subscribed dashboard.
Published(queue, eventType, rows) ==
    IF page = "subscribed"
    THEN queue \o [k \in 1..Len(rows) |-> [eventType |-> eventType, new |-> rows[k]]]
    ELSE queue

\* The batched insert of lines 125-130 resolves.
Insert ==
    /\ pc = "insert"
    /\ \E dbOk \in BOOLEAN :
          LET r == InsertSignals(nexus_signals, signals, dbOk)
          IN  /\ nexus_signals' = r.rows
              /\ notices' = (IF r.error THEN notices
                             ELSE Published(notices, "INSERT", signals))
              /\ IF r.error
                 THEN /\ pc' = "catch"
                      /\ errorMsg' = (IF r.duplicate THEN DuplicateKeyError ELSE InsertError)
                      /\ UNCHANGED result
                 ELSE /\ pc' = "done"
                      /\ result' = [kind |-> "returned", value |-> signals]
                      /\ UNCHANGED errorMsg
    /\ UNCHANGED << env, sync, exec, trigger, nexus_proxies, nexus_logs, proxyConfig, selectError, proxy, fetch, routes,
                    browser, sessions, bypassData, response, signals,
                    page, initial, isGodMode, handlerGodMode, dashSignals, executing >>

\* Mutant of LogFailure: the catch block logs and throws the error again.
LogFailureRethrows ==
    /\ pc = "catch"
    /\ \E dbOk \in BOOLEAN :
          nexus_logs' = IF dbOk THEN nexus_logs \cup {SweepFailureLog}
                                ELSE nexus_logs
    /\ result' = [kind |-> "thrown", value |-> <<>>]
    /\ pc' = "thrown"
    /\ UNCHANGED << env, dash, sync, exec, trigger, nexus_proxies, nexus_signals, proxyConfig, selectError, proxy,
                    fetch, routes, browser, sessions, bypassData, response, signals,
                    errorMsg >>

\* The catch block of lines 132-137: the log insert's own error is not looked at.
LogFailure ==
    /\ pc = "catch"
    /\ \E dbOk \in BOOLEAN :
          nexus_logs' = IF dbOk THEN nexus_logs \cup {SweepFailureLog}
                                ELSE nexus_logs
    /\ result' = [kind |-> "returned", value |-> <<>>]
    /\ pc' = "done"
    /\ UNCHANGED << env, dash, sync, exec, trigger, nexus_proxies, nexus_signals, proxyConfig, selectError, proxy, fetch, routes,
                    browser, sessions, bypassData, response, signals, errorMsg >>

\* The caller has the sweep's outcome and the invocation's locals are gone. When
\* the caller is the sweep route, it answers 200 with the signals (lines 52-61),
\* or its catch block writes its CRITICAL record and answers 500 (lines 63-76).
Return ==
    /\ pc \in {"done", "thrown"}
    /\ pc' = "idle"
    /\ selectError' = FALSE
    /\ proxy' = {}
    /\ attempt' = 1
    /\ statuses' = <<>>
    /\ delays' = <<>>
    /\ bypasses' = <<>>
    /\ routes' = {}
    /\ bypassData' = NoData
    /\ response' = NoData
    /\ signals' = <<>>
    /\ errorMsg' = ""
    /\ result' = NoResult
    /\ IF sweepRouted
       THEN IF pc = "done"
            THEN /\ sweepStatus' = 200
                 /\ UNCHANGED nexus_logs
            ELSE /\ sweepStatus' = 500
                 /\ \E dbOk \in BOOLEAN :
                       nexus_logs' = (IF dbOk THEN nexus_logs \cup {SweepRouteLog("CRITICAL")}
                                             ELSE nexus_logs)
       ELSE UNCHANGED << sweepStatus, nexus_logs >>
    /\ sweepRouted' = FALSE
    /\ UNCHANGED << env, dash, sync, exec, sweepAuth, nexus_proxies, nexus_signals, proxyConfig, browser,
                    sessions >>

\* ------------------------------------------------------------ execute route

\* update({ status: 'EXECUTED' }).eq('id', id) (execute route line 62).
UpdateStatus(rows, id) ==
    { IF r.id = id THEN [r EXCEPT !.status = "EXECUTED"] ELSE r : r \in rows }

\* The signalId of a request body, <<>> when the body has none.
SignalIds == { <<"EBAY", 1>>, <<"EBAY", 2>>, <<>> }

\* The records the execute route writes to nexus_logs (lines 64-68 and 73-77).
ExecuteLog(level) ==
    [level |-> level, origin |-> "execute"]

\* POST /api/nexus/execute up to the payment (lines 12-59): 500 without
\* credentials, 401 without the bearer key, 400 without a signalId; otherwise the
\* payment (or its simulation) is started.
ExecuteRequest ==
    /\ xpc = "idle"
    /\ \E authorized \in BOOLEAN, id \in SignalIds :
          IF ~credentials \/ ~authorized \/ id = <<>>
          THEN /\ executeStatus' = (IF ~credentials THEN 500
                                    ELSE IF ~authorized THEN 401 ELSE 400)
               /\ UNCHANGED << xpc, signalId >>
          ELSE /\ executeStatus' = 0
               /\ xpc' = "pay"
               /\ signalId' = id
    /\ UNCHANGED << env, dash, stores, sweep, sync >>

\* The payment settles (lines 47-59): when stripe rejects, the catch block runs;
\* otherwise the status update is issued.
PaymentSettles ==
    /\ xpc = "pay"
    /\ \E ok \in BOOLEAN : xpc' = (IF ok THEN "update" ELSE "failed")
    /\ UNCHANGED << env, dash, stores, sweep, sync, signalId, executeStatus >>

\* The rows of the table an update of id has written, as they are after it.
UpdatedRows(rows, id) ==
    LET hit == { r \in rows : r.id = id }
    IN  IF hit = {} THEN <<>> ELSE << [(CHOOSE r \in hit : TRUE) EXCEPT !.status = "EXECUTED"] >>

\* The status update resolves (line 62); its error is not looked at.
UpdateSettles ==
    /\ xpc = "update"
    /\ \E dbOk \in BOOLEAN :
          /\ nexus_signals' = (IF dbOk THEN UpdateStatus(nexus_signals, signalId)
                                      ELSE nexus_signals)
          /\ notices' = (IF dbOk
                         THEN Published(notices, "UPDATE", UpdatedRows(nexus_signals, signalId))
                         ELSE notices)
    /\ xpc' = "logged"
    /\ UNCHANGED << env, nexus_proxies, nexus_logs, sweep, sync, signalId, executeStatus,
                    page, initial, isGodMode, handlerGodMode, dashSignals, executing >>

\* The INFO record is written and the route answers 200 (lines 64-70).
ExecuteLogged ==
    /\ xpc = "logged"
    /\ \E dbOk \in BOOLEAN :
          nexus_logs' = (IF dbOk THEN nexus_logs \cup {ExecuteLog("INFO")} ELSE nexus_logs)
    /\ executeStatus' = 200
    /\ xpc' = "idle"
    /\ signalId' = <<>>
    /\ UNCHANGED << env, dash, nexus_proxies, nexus_signals, sweep, sync >>

\* The catch block of lines 72-79: an ERROR record, and the route answers 500.
ExecuteFailed ==
    /\ xpc = "failed"
    /\ \E dbOk \in BOOLEAN :
          nexus_logs' = (IF dbOk THEN nexus_logs \cup {ExecuteLog("ERROR")} ELSE nexus_logs)
    /\ executeStatus' = 500
    /\ xpc' = "idle"
    /\ signalId' = <<>>
    /\ UNCHANGED << env, dash, nexus_proxies, nexus_signals, sweep, sync >>

\* --------------------------------------------------------------- dashboard

\* The length the dashboard keeps its list of signals to (lines 58, 73).
DisplayLimit == 10

\* setExecuting(prev => ({ ...prev, [signalId]: state })).
SetExecuting(prev, id, state) ==
    [i \in DOMAIN prev \cup {id} |-> IF i = id THEN state ELSE prev[i]]

\* The effect of lines 45-88 runs once, after the first render: without the
\* public store settings there is no client and the page is offline; otherwise
\* fetchInitial is started and the handler of this render is subscribed. Its
\* dependency array is empty (line 88): the handler is never replaced, and the
\* isGodMode it reads is the one of this render.
Mount ==
    /\ page = "unmounted"
    /\ \E publicEnv \in BOOLEAN :
          /\ page' = (IF publicEnv THEN "subscribed" ELSE "offline")
          /\ initial' = publicEnv
    /\ handlerGodMode' = isGodMode
    /\ UNCHANGED << env, stores, sweep, sync, exec, isGodMode, notices, dashSignals, executing >>

\* fetchInitial's select settles (lines 53-66): the stored signals replace the
\* list, in the order of their timestamps; an error is only logged.
InitialFetched ==
    /\ page = "subscribed"
    /\ initial
    /\ initial' = FALSE
    /\ \E ok \in BOOLEAN :
          IF ok
          THEN \E ordered \in Shuffles(nexus_signals) :
                  dashSignals' = Slice(ordered, 0, DisplayLimit)
          ELSE UNCHANGED dashSignals
    /\ UNCHANGED << env, stores, sweep, sync, exec, page, isGodMode, handlerGodMode, notices,
                    executing >>

\* The God Mode button is clicked (lines 176-188).
ToggleGodMode ==
    /\ page # "unmounted"
    /\ isGodMode' = ~isGodMode
    /\ UNCHANGED << env, stores, sweep, sync, exec, page, initial, handlerGodMode, notices,
                    dashSignals, executing >>

\* The subscribed handler runs for the next change event (lines 71-84): an
\* inserted row is put in front of the list, and executeTarget is called for it
\* (lines 90-102, up to its request) when the handler's isGodMode holds and the
\* row is PENDING; an updated row replaces the row of its id.
Notify ==
    /\ page = "subscribed"
    /\ notices # <<>>
    /\ notices' = Tail(notices)
    /\ LET payload == Head(notices)
       IN  IF payload.eventType = "INSERT"
           THEN /\ dashSignals' = Slice(<< payload.new >> \o dashSignals, 0, DisplayLimit)
                /\ executing' = (IF handlerGodMode /\ payload.new.status = "PENDING"
                                 THEN SetExecuting(executing, payload.new.id, "LOADING")
                                 ELSE executing)
           ELSE /\ dashSignals' = [k \in DOMAIN dashSignals |->
                                     IF dashSignals[k].id = payload.new.id
                                     THEN payload.new ELSE dashSignals[k]]
                /\ UNCHANGED executing
    /\ UNCHANGED << env, stores, sweep, sync, exec, page, initial, isGodMode, handlerGodMode >>

\* The execute button of a listed signal is clicked (lines 289-290): it is
\* disabled for an executed signal and while executing[id] is LOADING or
\* SUCCESS. executeTarget runs up to its request (lines 90-102).
ClickExecute ==
    /\ page # "unmounted"
    /\ \E k \in DOMAIN dashSignals :
          LET sig == dashSignals[k]
          IN  /\ sig.status # "EXECUTED"
              /\ sig.id \in DOMAIN executing => executing[sig.id] = "ERROR"
              /\ executing' = SetExecuting(executing, sig.id, "LOADING")
    /\ UNCHANGED << env, stores, sweep, sync, exec, page, initial, isGodMode, handlerGodMode,
                    notices, dashSignals >>

\* The execute request of executeTarget settles (lines 104-115): SUCCESS for an
\* ok response with status SUCCESS, ERROR for any other response or a failure.
ExecuteTargetSettles ==
    /\ page # "unmounted"
    /\ \E id \in DOMAIN executing, ok \in BOOLEAN :
          /\ executing[id] = "LOADING"
          /\ executing' = SetExecuting(executing, id, IF ok THEN "SUCCESS" ELSE "ERROR")
    /\ UNCHANGED << env, stores, sweep, sync, exec, page, initial, isGodMode, handlerGodMode,
                    notices, dashSignals >>

\* The page is left: the effect's cleanup removes the channel (line 87) and the
\* component's state is gone.
Unmount ==
    /\ page # "unmounted"
    /\ page' = "unmounted"
    /\ initial' = FALSE
    /\ isGodMode' = FALSE
    /\ handlerGodMode' = FALSE
    /\ notices' = <<>>
    /\ dashSignals' = <<>>
    /\ executing' = <<>>
    /\ UNCHANGED << env, stores, sweep, sync, exec >>

\* Sweeps of one hunter over every marketplace response of Responses; no fleet
\* sync runs meanwhile, the fleet is the one of the initial state.
ApiSuccess == ApiResolves(Responses)

ApiFailure == ApiRejects(FailStatuses)

Next ==
    \/ NewHunter
    \/ RunSweep
    \/ SelectProxy
    \/ ApiSuccess
    \/ ApiFailure
    \/ Backoff
    \/ Launch
    \/ NewContext
    \/ Navigate
    \/ Interact
    \/ Capture
    \/ Close
    \/ Evaluate
    \/ Insert
    \/ LogFailure
    \/ Return

Spec == Init /\ [][Next]_vars

\* Fleet syncs and sweeps interleaved, from an empty fleet, over the marketplace
\* responses of FleetResponses (they carry no listing, so no sweep has a signal
\* to insert) and the failures of FleetFailStatuses.
FleetApiSuccess == ApiResolves(FleetResponses)

FleetApiFailure == ApiRejects(FleetFailStatuses)

FleetNext ==
    \/ FleetSync
    \/ NewHunter
    \/ RunSweep
    \/ SelectProxy
    \/ FleetApiSuccess
    \/ FleetApiFailure
    \/ Backoff
    \/ Launch
    \/ NewContext
    \/ Navigate
    \/ Interact
    \/ Capture
    \/ Close
    \/ Evaluate
    \/ LogFailure
    \/ Return

SpecFleet == FleetInit /\ [][FleetNext]_vars

\* The listings of Items a sweep admits.
MarketItems ==
    { item \in Items : item.hasTitle /\ item.hasPrice /\ item.price \in {0, 2499} }

\* The marketplace responses of the sweeps that run among execute requests.
MarketResponses ==
    { [kind |-> "items", items |-> l] :
        l \in UNION { [1..n -> MarketItems] : n \in 0..MaxItems } }

\* Sweeps and execute requests interleaved, over an empty fleet and a
\* marketplace that answers every request with admitted listings.
MarketApiSuccess == ApiResolves(MarketResponses)

MarketNext ==
    \/ NewHunter
    \/ RunSweep
    \/ SelectProxy
    \/ MarketApiSuccess
    \/ Evaluate
    \/ Insert
    \/ LogFailure
    \/ Return
    \/ ExecuteRequest
    \/ PaymentSettles
    \/ UpdateSettles
    \/ ExecuteLogged
    \/ ExecuteFailed

SpecMarket == FleetInit /\ [][MarketNext]_vars

\* Fleet syncs step by step, one request after the other, from an empty fleet;
\* no sweep runs meanwhile.
SyncNext ==
    \/ SyncRequest
    \/ SourceSettles
    \/ Harvested
    \/ ProbeSettles
    \/ UpsertSettles
    \/ SyncComplete

SpecSync == FleetInit /\ [][SyncNext]_vars

\* The ProxyCommander pipeline run by a caller other than the route, one run
\* after the other, from an empty fleet.
CommanderNext ==
    \/ CommanderSync
    \/ SourceSettles
    \/ Harvested
    \/ ProbeSettles
    \/ UpsertSettles
    \/ CommanderReturns

SpecCommander == FleetInit /\ [][CommanderNext]_vars

\* Of the proxy-list hosts the first and the last answer.
ProbeSourceSettles == SourceSettlesAmong({1, 5})

\* The store rejects every upsert.
ProbeUpsertSettles == UpsertSettlesWith({FALSE})

ProbeNext ==
    \/ CommanderSync
    \/ ProbeSourceSettles
    \/ Harvested
    \/ ProbeSettles
    \/ ProbeUpsertSettles
    \/ CommanderReturns

\* A dashboard is open while sweeps run over an empty fleet and a marketplace
\* that answers every request with admitted listings.
DashNext ==
    \/ Mount
    \/ InitialFetched
    \/ ToggleGodMode
    \/ Notify
    \/ ClickExecute
    \/ ExecuteTargetSettles
    \/ Unmount
    \/ NewHunter
    \/ RunSweep
    \/ SelectProxy
    \/ MarketApiSuccess
    \/ Evaluate
    \/ Insert
    \/ LogFailure
    \/ Return

SpecDashboard == FleetInit /\ [][DashNext]_vars

\* The pipeline runs in which every probe settles: axios resolves, rejects or
\* times out after 5 s (validateBatch lines 88-92).
SpecProbe == FleetInit /\ [][ProbeNext]_vars /\ WF_vars(ProbeSettles)

\* The marketplace responses of the sweeps whose termination is checked: without
\* listings, with one admitted listing, and with a listing without title.
LiveResponses ==
    { [kind |-> "noitems", items |-> <<>>] }
        \cup { [kind |-> "items", items |-> << item >>] :
                  item \in { i \in Items : i.itemId = 1 \/ ~i.hasTitle } }

LiveApiSuccess == ApiResolves(LiveResponses)

LiveApiFailure == ApiRejects(FailStatuses)

LiveNext ==
    \/ NewHunter
    \/ RunSweep
    \/ SelectProxy
    \/ LiveApiSuccess
    \/ LiveApiFailure
    \/ Backoff
    \/ Launch
    \/ NewContext
    \/ Navigate
    \/ Interact
    \/ Capture
    \/ Close
    \/ Evaluate
    \/ Insert
    \/ LogFailure
    \/ Return

\* Sweeps of one hunter in which every pending operation settles: each request,
\* browser step and store statement resolves, rejects or times out (axios
\* timeout 10 s, page.goto timeout 15 s), and each timer fires.
SpecLive == Init /\ [][LiveNext]_vars /\ WF_vars(LiveNext)

\* The marketplace responses of the sweeps the sweep route starts: without
\* listings, or with one admitted listing.
TriggerResponses ==
    { [kind |-> "noitems", items |-> <<>>] }
        \cup { [kind |-> "items", items |-> << item >>] : item \in { i \in MarketItems : i.itemId = 1 } }

TriggerApiSuccess == ApiResolves(TriggerResponses)

TriggerApiFailure == ApiRejects(FleetFailStatuses)

\* Of the proxy-list hosts only the third answers.
TriggerSourceSettles == SourceSettlesAmong({3})

\* The two trigger routes serve one request at a time.
TriggerSweepRequest == spc = "idle" /\ SweepRequest

TriggerSyncRequest == pc = "idle" /\ SyncRequest

\* Requests to the sweep route and to the sync route, with every authorization
\* header of AuthHeaders, from an empty fleet.
TriggerNext ==
    \/ TriggerSweepRequest
    \/ SweepRejected
    \/ SweepStarted
    \/ SelectProxy
    \/ TriggerApiSuccess
    \/ TriggerApiFailure
    \/ Backoff
    \/ Launch
    \/ NewContext
    \/ Navigate
    \/ Interact
    \/ Capture
    \/ Close
    \/ Evaluate
    \/ Insert
    \/ LogFailure
    \/ Return
    \/ TriggerSyncRequest
    \/ TriggerSourceSettles
    \/ Harvested
    \/ ProbeSettles
    \/ UpsertSettles
    \/ SyncComplete

SpecTrigger == FleetInit /\ [][TriggerNext]_vars

\* ------------------------------------------------------------------ claims

\* The statuses of this fetch's requests so far are all failures without a
\* blocking status (a timeout, or a status other than 403 and 503).
OnlyPlainFailures ==
    /\ Len(statuses) > 0
    /\ \A a \in 1..Len(statuses) : statuses[a] \in {0, 500}

\* C1: every attempt of a fetch that failed with status 403 or 503 has invoked the
\* browser bypass, and invoked it before the backoff delay of that attempt: when
\* the bypass of attempt a started, only the a - 1 delays of the earlier attempts
\* had been waited (none for a 403 on attempt 1).
C1_BypassBeforeBackoff ==
    \A a \in 1..Len(statuses) :
        statuses[a] \in {403, 503} =>
            \E i \in 1..Len(bypasses) :
                /\ bypasses[i].attempt = a
                /\ bypasses[i].delaysBefore = a - 1

\* A 503 on attempt 2, after a timeout: its bypass has started with one delay waited.
C1_Witness ==
    /\ pc = "launch"
    /\ statuses = <<0, 503>>
    /\ delays = <<1000>>

\* C2: a fetch whose attempts all fail without a blocking status makes exactly 3
\* requests and then returns null: it is still running while fewer than 3
\* requests are made, and it never ends in an exception.
C2_ThreeAttemptsThenNull ==
    OnlyPlainFailures =>
        \/ /\ pc \in {"request", "backoff"}
           /\ Len(statuses) < 3
        \/ /\ pc = "evaluate"
           /\ Len(statuses) = 3
           /\ response = NoData

\* Three timeouts, and safeApiCall has returned null.
C2_Witness ==
    /\ pc = "evaluate"
    /\ statuses = <<0, 0, 0>>
    /\ response = NoData

PassesThreshold(item) ==
    /\ item.hasTitle
    /\ BrandMatch(item.title) # 0
    /\ EstValue(TARGET_BRANDS[BrandMatch(item.title)], ConditionOrDefault(item.condition)) * 10
          > item.price * 13

\* The listing (external id and price) each signal of a list was made from.
ListingsOf(sigs) ==
    [j \in 1..Len(sigs) |-> << sigs[j].id[2], sigs[j].listedPrice >>]

\* The listings of a response that pass the threshold, in the response's order.
AdmittedListings(resp) ==
    LET pass == SelectSeq(resp.items, PassesThreshold)
    IN  [j \in 1..Len(pass) |-> << pass[j].itemId, pass[j].price >>]

\* C4: every signal in the store or in a returned list has
\* estimatedValue > 1.30 * listedPrice (strictly); and the signals a sweep hands
\* to the insert, and returns when it ends without a failure, are made from
\* exactly the brand-matched listings of the response that pass that threshold.
C4_AdmissionThreshold ==
    /\ \A s \in nexus_signals : s.estimatedValue * 10 > s.listedPrice * 13
    /\ \A j \in 1..Len(result.value) :
          result.value[j].estimatedValue * 10 > result.value[j].listedPrice * 13
    /\ pc = "insert" => ListingsOf(signals) = AdmittedListings(response)
    /\ (pc = "done" /\ errorMsg = "") => ListingsOf(result.value) = AdmittedListings(response)

\* A sweep has returned one signal, priced 2499 for an estimated 3250, from a
\* response that also held the same listing priced 2500 (3250 = 1.30 * 2500).
C4_Witness ==
    /\ pc = "done"
    /\ errorMsg = ""
    /\ Len(response.items) = 2
    /\ \E i \in 1..2 : response.items[i].price = 2500 /\ BrandMatch(response.items[i].title) # 0
    /\ Len(result.value) = 1
    /\ result.value[1].listedPrice = 2499
    /\ result.value[1].estimatedValue = 3250

\* C5, as claimed: runSweep never ends in an exception.
C5_NeverThrows ==
    result.kind # "thrown"

\* C5, amended: runSweep ends in an exception only when the store credentials are
\* missing (getSupabase is called before the try block); every failure after
\* that (proxy selection, fetch, bypass teardown, a malformed listing, the signal
\* insert) ends the sweep with an empty returned list.
C5_ThrowsOnlyWithoutCredentials ==
    /\ result.kind = "thrown" => ~credentials /\ pc = "thrown"
    /\ pc = "thrown" => result.kind = "thrown"
    /\ pc = "catch" => errorMsg # ""
    /\ (pc = "done" /\ errorMsg # "") => result = [kind |-> "returned", value |-> <<>>]

\* A listing without a title made the evaluation throw, and the sweep has
\* returned an empty list.
C5_Witness ==
    /\ pc = "done"
    /\ credentials
    /\ errorMsg = TitleError
    /\ result = [kind |-> "returned", value |-> <<>>]

\* C6, as claimed: the log records runSweep's catch block writes have level
\* CRITICAL.
C6_SweepFailureLoggedCritical ==
    \A r \in nexus_logs : r.origin = "runSweep" => r.level = "CRITICAL"

\* C7: a browser session is open only inside the bypass that launched it, and at
\* most one: whenever no bypass is between its launch and its close (the bypass
\* has returned or thrown, the sweep has ended), no session is open.
C7_SessionClosedOnEveryExit ==
    /\ sessions = (IF browser THEN 1 ELSE 0)
    /\ browser => pc \in {"context", "goto", "interact", "content", "close"}

\* A bypass that had launched a browser and created its context failed in a later
\* step and returned null: the fetch is backing off and no session is open.
C7_Witness ==
    /\ pc = "backoff"
    /\ Len(bypasses) = 1
    /\ \E r \in routes : r.kind = "session"
    /\ sessions = 0

\* C8, as claimed: no failure of a bypass step, the session teardown included,
\* leaves the bypass as an exception.
C8_BypassNeverThrows ==
    errorMsg # CloseError

\* The rows of the fleet store with status ACTIVE.
ActiveRows ==
    { n \in nexus_proxies : n.status = "ACTIVE" }

\* The step in which getOptimalProxy returns to runSweep.
SelectStep ==
    pc = "select" /\ pc' = "request"

\* What C9 claims of a returned node: it is a row of the store, ACTIVE, and no
\* ACTIVE row has a lower latency.
IsOptimal(n) ==
    /\ n \in ActiveRows
    /\ \A m \in ActiveRows : n.latency <= m.latency

\* C9, as claimed: getOptimalProxy returns an ACTIVE node of minimal latency, and
\* null exactly when the store holds no ACTIVE node.
C9_NullOnlyWithoutActive ==
    [][SelectStep => /\ \A n \in proxy' : IsOptimal(n)
                     /\ proxy' = {} <=> ActiveRows = {}]_vars

\* C9, amended: getOptimalProxy returns an ACTIVE node of minimal latency, and
\* null exactly when the store holds no ACTIVE node or its select fails.
C9_NullWithoutActiveOrOnError ==
    [][SelectStep => /\ \A n \in proxy' : IsOptimal(n)
                     /\ proxy' = {} <=> (ActiveRows = {} \/ selectError')]_vars

\* The 20 ms node was returned from a fleet that also holds an ACTIVE 50 ms node.
C9_Witness ==
    /\ pc = "request"
    /\ \E n \in proxy : /\ n.latency = 20
                        /\ \E m \in ActiveRows : m.id # n.id /\ m.latency = 50

\* C10, as claimed: in a sweep whose proxy selection gave null, every marketplace
\* request and every browser context is direct.
C10_DirectWithoutProxy ==
    (pc \notin {"idle", "select", "thrown"} /\ proxy = {}) =>
        \A r \in routes : r.via = ""

\* C11: every node of the fleet store has status ACTIVE exactly when its latency
\* is not null, whatever fleet syncs and upserts have run.
C11_ActiveIffLatency ==
    \A n \in nexus_proxies : (n.status = "ACTIVE") <=> (n.latency # NullLatency)

\* Between two syncs the store holds an ACTIVE node with its latency and a DEAD
\* node without one.
C11_Witness ==
    /\ spc = "idle"
    /\ \E n, m \in nexus_proxies :
          /\ n.status = "ACTIVE" /\ n.latency = 50
          /\ m.status = "DEAD" /\ m.latency = NullLatency

\* The positions of results the upsert in flight writes.
UpsertPositions ==
    (si + 1)..(IF si + ChunkSize < Len(results) THEN si + ChunkSize ELSE Len(results))

\* The step in which an upsert of syncToDatabase settles without an error.
UpsertSucceeds ==
    spc = "persist" /\ syncErrors' = Append(syncErrors, FALSE)

\* C12, as claimed: a failed probe increments the stored fail_count: when the
\* node of a failed probe is upserted over a stored row of its id, the row's
\* fail_count afterwards is the earlier one plus 1.
C12_FailCountIncremented ==
    [][UpsertSucceeds =>
          \A k \in UpsertPositions : \A r \in nexus_proxies :
              (results[k].status = "DEAD" /\ r.id = results[k].id) =>
                  \E n \in nexus_proxies' : n.id = r.id /\ n.fail_count = r.fail_count + 1]_vars

\* C13: the probes in flight are probes of one group, at most Concurrency of
\* them, and a group's probes are in flight only when the nodes of all earlier
\* groups are collected in results.
C13_GroupsSequential ==
    /\ Cardinality(inflight) <= Concurrency
    /\ \A j \in inflight : vi < j /\ j <= vi + Concurrency
    /\ inflight # {} => spc = "validate" /\ Len(results) = vi
    /\ spc = "validate" =>
          inflight \cup DOMAIN chunkResults = ChunkPositions(targetBatch, vi, Concurrency)

\* The second group's probe is in flight, and the first group's two nodes are
\* collected.
C13_Witness ==
    /\ spc = "validate"
    /\ vi = Concurrency
    /\ inflight = {Concurrency + 1}
    /\ Len(results) = Concurrency

\* The strings of each source's list that have the ip:port pattern (four
\* dot-separated groups of 1-3 digits, a colon, 2-5 digits), white space aside.
PatternValid(url) ==
    CASE url = 1 -> {LineA, LineB}
      [] url = 2 -> {LineB, LineC}
      [] url = 3 -> {LineA}
      [] url = 4 -> {}
      [] url = 5 -> {LineC}

\* C14: whatever sources have failed so far, the harvest holds exactly the
\* pattern-valid lines of the sources that succeeded, each once; no failure of a
\* source ends the sync request (it answers 500 without credentials only).
C14_SourceFailuresIsolated ==
    /\ spc = "scrape" =>
          /\ rawProxies = UNION { PatternValid(url) : url \in succeeded }
          /\ succeeded \cap pending = {}
    /\ syncStatus = 500 => ~credentials

\* Sources 2, 3 and 4 failed, 1 and 5 succeeded.
C14_Witness ==
    /\ spc = "scrape"
    /\ pending = {}
    /\ succeeded = {1, 5}
    /\ rawProxies = {LineA, LineB, LineC}

\* C15, as claimed: every node of the fleet store has a port from 1 to 65535.
C15_PortInRange ==
    \A n \in nexus_proxies : n.port \in 1..65535

\* The number of chunks syncToDatabase cuts its nodes into.
NumChunks ==
    (Len(results) + ChunkSize - 1) \div ChunkSize

\* The positions of results of chunk c (from 1).
PositionsOfChunk(c) ==
    { k \in 1..Len(results) : (k - 1) \div ChunkSize = c - 1 }

\* C16: syncToDatabase attempts the upsert of every chunk, whatever upserts failed
\* before; when it has returned, the nodes of every chunk whose upsert succeeded
\* are in the store; and it returns into the route's success path.
C16_BestEffortPerBatch ==
    /\ spc = "persist" => Len(syncErrors) * ChunkSize = si /\ si < Len(results)
    /\ spc = "log" =>
          /\ Len(syncErrors) = NumChunks
          /\ \A c \in 1..NumChunks : ~syncErrors[c] =>
                 \A k \in PositionsOfChunk(c) : results[k] \in nexus_proxies

\* The first upsert failed, the second was still made and its node is stored.
C16_Witness ==
    /\ spc = "log"
    /\ syncErrors = <<TRUE, FALSE>>
    /\ results[Len(results)] \in nexus_proxies
    /\ results[1] \notin nexus_proxies

\* C17: the store never holds two rows of one id, and an upsert that succeeds
\* leaves, for each node it writes, that node as the row of its id.
C17_UpsertIdempotent ==
    [][/\ \A r1, r2 \in nexus_proxies' : r1.id = r2.id => r1 = r2
       /\ UpsertSucceeds =>
             \A k \in UpsertPositions : results[k] \in nexus_proxies']_vars

\* The first chunk is written, and the node of the second chunk has the id of a
\* stored row with another latency.
C17_Witness ==
    /\ spc = "persist"
    /\ syncErrors = <<FALSE>>
    /\ results[1] \in nexus_proxies
    /\ \E k \in UpsertPositions : \E r \in nexus_proxies :
          /\ r.id = results[k].id
          /\ r.latency = 20
          /\ results[k].latency = 50

\* The stored row was probed in the sync that is completing.
ProbedInThisSync(r) ==
    \E k \in 1..Len(results) : results[k].id = r.id

\* C18, as claimed: when the upserts of a fleet sync are done, and none of them
\* failed, every stored node is a node this sync probed.
C18_AllStoredReprobed ==
    (spc = "log" /\ \A c \in 1..Len(syncErrors) : ~syncErrors[c]) =>
        \A r \in nexus_proxies : \E k \in 1..Len(results) : results[k] = r

\* C18, amended: a fleet sync probes the endpoints sampled from its own harvest
\* only: the rows of other ids are left as they were by every step, and when
\* syncToDatabase has returned, each sampled node whose upsert succeeded is the
\* row of its id.
C18_SampleReprobed ==
    [][/\ \A r \in nexus_proxies : ~ProbedInThisSync(r) => r \in nexus_proxies'
       /\ spc' = "log" =>
             \A c \in 1..Len(syncErrors') : ~syncErrors'[c] =>
                 \A k \in 1..Len(results') :
                     (k - 1) \div ChunkSize = c - 1 => results'[k] \in nexus_proxies']_vars

\* A sync is done whose sample did not hold a stored endpoint: that row is still
\* there next to a row this sync wrote.
C18_Witness ==
    /\ spc = "log"
    /\ \E r \in nexus_proxies : ~ProbedInThisSync(r)
    /\ \E k \in 1..Len(results) : results[k] \in nexus_proxies

\* C19: a stored signal with status EXECUTED is left exactly as it is by every
\* step of every sweep and execute request.
C19_ExecutedImmutable ==
    [][\A s \in nexus_signals : s.status = "EXECUTED" => s \in nexus_signals']_vars

\* A sweep has admitted a listing again whose signal is stored as EXECUTED, and
\* has ended; the signal is still EXECUTED.
C19_Witness ==
    /\ pc = "done"
    /\ \E s \in nexus_signals :
          /\ s.status = "EXECUTED"
          /\ \E j \in 1..Len(signals) : signals[j].id = s.id

\* C20, as claimed: the store holds one row per signal id, and a sweep whose
\* insert met nothing worse than an id that is already stored, or that occurs
\* twice in its batch, has succeeded: it returns its admitted signals and each of
\* them has its row.
C20_DuplicateKeyTolerated ==
    /\ \A r1, r2 \in nexus_signals : r1.id = r2.id => r1 = r2
    /\ (pc = "done" /\ Len(signals) > 0 /\ errorMsg \in {"", DuplicateKeyError}) =>
          /\ result.value = signals
          /\ \A j \in 1..Len(signals) : \E r \in nexus_signals : r.id = signals[j].id

\* C21, as claimed: without store credentials no sweep gets beyond its entry (no
\* proxy selection, no marketplace request) and no fleet sync has a harvest
\* request or a probe in flight or a harvested batch in hand: the error is the
\* first thing either of them produces.
C21_FailsFast ==
    ~credentials =>
        /\ pc \in {"idle", "thrown"}
        /\ routes = {}
        /\ proxy = {}
        /\ spc \in {"idle", "thrown"}
        /\ pending = {}
        /\ inflight = {}
        /\ targetBatch = <<>>

\* The records of the log table that report an error.
ErrorRecords ==
    { r \in nexus_logs : r.level # "INFO" }

\* C22, as claimed: once a proxy-list source has failed, an upsert batch has
\* failed, a bypass has returned no data, a fetch has used up its attempts, or a
\* signal insert has failed, the log table holds a record of an error.
C22_EveryErrorLogged ==
    /\ (spc = "scrape" /\ PROXY_SOURCES \ (pending \cup succeeded) # {}) => ErrorRecords # {}
    /\ (\E k \in 1..Len(syncErrors) : syncErrors[k]) => ErrorRecords # {}
    /\ (pc = "backoff" /\ Len(bypasses) > 0) => ErrorRecords # {}
    /\ (pc = "done" /\ response = NoData /\ errorMsg = "") => ErrorRecords # {}
    /\ (pc = "done" /\ errorMsg \in {InsertError, DuplicateKeyError}) => ErrorRecords # {}

\* The one authorization header the trigger routes accept.
ExactHeader == "Bearer demo-key"

\* C23: with store credentials, a request to the sweep route or to the sync route
\* that carries the exact bearer header is answered with 200 and with nothing
\* else, whatever failed while it was served: the route is inside the request
\* (no answer yet) or has answered 200, and neither the sweep nor the pipeline
\* has thrown.
C23_TriggersAnswer200 ==
    credentials =>
        /\ sweepAuth = ExactHeader =>
              /\ pc \notin {"thrown", "reject"}
              /\ sweepStatus = (IF pc = "idle" THEN 200 ELSE 0)
        /\ syncAuth = ExactHeader =>
              /\ spc # "thrown"
              /\ syncStatus = (IF spc = "idle" THEN 200 ELSE 0)

\* Both routes have answered 200 to an authorised request; a sweep has failed
\* (its catch block wrote the failure record), and the fleet is still empty
\* after a sync whose sources or whose upsert failed.
C23_Witness ==
    /\ sweepAuth = ExactHeader
    /\ sweepStatus = 200
    /\ SweepFailureLog \in nexus_logs
    /\ syncAuth = ExactHeader
    /\ syncStatus = 200
    /\ SyncLog \in nexus_logs
    /\ nexus_proxies = {}

\* A step in which a trigger route handles a request without the exact header:
\* the request arrives, or the sweep route's WARN record is written.
UnauthorizedStep ==
    \/ pc = "idle" /\ sweepAuth' # ExactHeader /\ trigger' # trigger
    \/ pc = "reject"
    \/ spc = "idle" /\ syncAuth' # ExactHeader /\ << syncAuth, syncStatus >>' # << syncAuth, syncStatus >>

\* C24: while the last request to a trigger route did not carry the exact header,
\* that route runs no sweep (no harvest, no probe) and its answer is not 200; the
\* steps that handle such a request answer 401 (500 without credentials) and
\* leave the signal table and the proxy table as they are.
C24_UnauthorizedDoesNothing ==
    [][/\ sweepAuth' # ExactHeader =>
             /\ pc' \in {"idle", "reject"}
             /\ sweepStatus' # 200
             /\ pc' = "idle" => sweepStatus' \in {0, 401, 500}
       /\ syncAuth' # ExactHeader =>
             /\ spc' = "idle"
             /\ syncStatus' \in {0, 401, 500}
             /\ pending' = {}
             /\ inflight' = {}
       /\ UnauthorizedStep =>
             /\ UNCHANGED << nexus_signals, nexus_proxies, routes, targetBatch >>
             /\ pc' \in {"idle", "reject"}
             /\ (pc = "reject" => sweepStatus' = 401)
      ]_vars

\* Both routes have answered 401, the sweep route to a key without its scheme
\* and the sync route to a request without header, while both tables hold rows;
\* the sweep route has written its WARN record.
C24_Witness ==
    /\ sweepAuth = "demo-key"
    /\ sweepStatus = 401
    /\ syncAuth = ""
    /\ syncStatus = 401
    /\ SweepRouteLog("WARN") \in nexus_logs
    /\ nexus_proxies # {}
    /\ nexus_signals # {}

\* The states of a sweep, in the order of the sweep's state machine: proxy
\* selection, the fetch with its bypass, evaluation, persistence, and the end.
Phase(p) ==
    CASE p = "idle" -> 0
      [] p = "select" -> 1
      [] p \in {"request", "backoff", "launch", "context", "goto", "interact",
                "content", "close"} -> 2
      [] p = "evaluate" -> 3
      [] p = "insert" -> 4
      [] p = "catch" -> 5
      [] p \in {"done", "thrown"} -> 6

\* C25: a sweep never steps back in the order selection, fetch, evaluation,
\* persistence, end; the first request follows the proxy selection and every
\* later one a backoff; the bypass starts only at a request that got 403 or 503;
\* evaluation starts only when the fetch has returned, and the signals are
\* computed there only; the signal table is written in the one step that leaves
\* the insert state, to which the sweep cannot come back.
C25_StateOrder ==
    [][/\ pc \notin {"idle", "done", "thrown"} => Phase(pc') >= Phase(pc)
       /\ pc' = "request" => pc \in {"select", "backoff", "request"}
       /\ (pc = "select" /\ pc' # pc) => (pc' = "request" /\ attempt' = 1 /\ statuses' = <<>>)
       /\ (pc' = "launch" /\ pc # "launch") =>
             /\ pc = "request"
             /\ statuses'[Len(statuses')] \in {403, 503}
       /\ (pc' = "evaluate" /\ pc # "evaluate") =>
             /\ Phase(pc) = 2
             /\ Len(statuses') > 0
             /\ signals' = <<>>
       /\ (signals' # signals /\ pc' # "idle") => pc = "evaluate"
       /\ pc' = "insert" => pc \in {"evaluate", "insert"}
       /\ nexus_signals' # nexus_signals => (pc = "insert" /\ pc' = "done")
      ]_vars

\* A sweep has ended whose first request was blocked and sent through the bypass,
\* and whose later request brought listings that were evaluated and inserted.
C25_Witness ==
    /\ pc = "done"
    /\ Len(result.value) > 0
    /\ \A j \in 1..Len(result.value) : result.value[j] \in nexus_signals
    /\ \E r \in routes : r.kind = "session"

\* The score the claim gives a condition text.
ClaimedScore(condition) ==
    LET text == [i \in 1..Len(condition) |-> ToLowerCase(condition[i])]
    IN  IF condition = <<>> THEN 1
        ELSE IF Includes(text, "new") \/ Includes(text, "mint") THEN 5
        ELSE IF Includes(text, "excellent") THEN 4
        ELSE IF Includes(text, "good") \/ Includes(text, "used") THEN 3
        ELSE IF Includes(text, "fair") \/ Includes(text, "parts") THEN 2
        ELSE 1

\* C26, as claimed: every signal of a sweep carries the score the ordered keyword
\* match gives the condition text of its listing, which is 1 for a listing
\* without a condition text.
C26_ScoreAsClaimed ==
    pc = "insert" =>
        \A j \in 1..Len(signals) :
            \E i \in 1..Len(response.items) :
                /\ response.items[i].title = signals[j].targetName
                /\ response.items[i].price = signals[j].listedPrice
                /\ signals[j].conditionScore = ClaimedScore(response.items[i].condition)

\* C27: every signal of a sweep, and every stored one, carries as brandCategory a
\* brand its title holds that no brand earlier in the target list is held with,
\* and its estimated value is that brand's base value scaled by its condition
\* score; a listing whose title holds no brand of the list has no signal.
C27_FirstBrandInListOrder ==
    /\ \A s \in nexus_signals \cup { signals[j] : j \in 1..Len(signals) } :
          \E k \in 1..Len(TARGET_BRANDS) :
             /\ TARGET_BRANDS[k] = s.brandCategory
             /\ Includes(s.targetName, TARGET_BRANDS[k])
             /\ \A j \in 1..(k - 1) : ~Includes(s.targetName, TARGET_BRANDS[j])
             /\ s.estimatedValue =
                   ((IF k <= 2 THEN 5000 ELSE 1500) * ConditionMultiplier(s.conditionScore)) \div 100
    /\ pc \in {"insert", "done"} =>
          \A i \in 1..Len(response.items) :
             (\A k \in 1..Len(TARGET_BRANDS) : ~Includes(response.items[i].title, TARGET_BRANDS[k]))
                => \A j \in 1..Len(signals) : signals[j].targetName # response.items[i].title

\* A sweep has stored the signal of a listing whose title holds Gucci before
\* Chanel, as a Chanel signal, and has dropped a listing without a brand whose
\* price would pass any threshold.
C27_Witness ==
    /\ pc = "done"
    /\ \E s \in nexus_signals :
          /\ s.targetName = <<"tote", "Gucci", "Chanel">>
          /\ s.brandCategory = "Chanel"
    /\ \E i \in 1..Len(response.items) : response.items[i].title = <<"vintage", "bag">>

\* C28, as claimed: when the execute route answers 200 for a signalId, the store
\* holds a signal of that id whose status is EXECUTED.
C28_SuccessMeansExecuted ==
    [][(xpc = "logged" /\ executeStatus' = 200) =>
           \E s \in nexus_signals' : s.id = signalId /\ s.status = "EXECUTED"]_vars

\* C29: a bypass that returns no data is followed by the backoff when attempts
\* remain and by the fetch's return of no data otherwise, and the backoff by the
\* next request; the bypasses of a fetch belong to distinct attempts, so there
\* are at most Retries of them; a bypass that returns data ends the fetch with
\* that data, and no request is made after it.
C29_BlockedNotTerminal ==
    [][/\ (pc \in {"launch", "close"} /\ pc' \in {"backoff", "evaluate"} /\ bypassData' = NoData) =>
             /\ Len(bypasses) > 0
             /\ bypasses[Len(bypasses)].attempt = attempt
             /\ IF attempt < 3
                THEN pc' = "backoff" /\ response' = response
                ELSE pc' = "evaluate" /\ response' = NoData
       /\ (pc = "launch" /\ pc' # pc) => pc' \in {"context", "backoff", "evaluate"}
       /\ (pc = "close" /\ pc' \notin {"close", "catch"}) =>
             IF bypassData # NoData
             THEN /\ pc' = "evaluate"
                  /\ response' = bypassData
                  /\ UNCHANGED << statuses, routes, attempt >>
             ELSE pc' \in {"backoff", "evaluate"}
       /\ (pc = "backoff" /\ pc' # pc) => (pc' = "request" /\ attempt' = attempt + 1)
       /\ Len(bypasses') <= 3
       /\ \A i, j \in 1..Len(bypasses') :
             bypasses'[i].attempt = bypasses'[j].attempt => i = j
      ]_vars

\* The third request of a fetch is out whose first two attempts were both
\* blocked and whose two bypasses both returned no data.
C29_Witness ==
    /\ pc = "request"
    /\ attempt = 3
    /\ Len(bypasses) = 2
    /\ statuses = << 403, 503 >>

\* C30: a sweep whose fetch returned no data ends at its evaluation step: it has
\* no signal, writes neither the signal table nor the log table, and returns the
\* empty list.
C30_NoDataCompletes ==
    [][(pc = "evaluate" /\ response = NoData /\ pc' # pc) =>
           /\ pc' = "done"
           /\ signals' = <<>>
           /\ result' = [kind |-> "returned", value |-> <<>>]
           /\ errorMsg' = ""
           /\ UNCHANGED << nexus_signals, nexus_logs >>]_vars

\* A sweep whose every attempt failed has returned the empty list, and the log
\* table holds no failure record.
C30_Witness ==
    /\ pc = "done"
    /\ response = NoData
    /\ result = [kind |-> "returned", value |-> <<>>]
    /\ errorMsg = ""
    /\ SweepFailureLog \notin nexus_logs

\* The base value and the multiplier (in percent) the claim gives a signal.
ClaimedBase(brand) ==
    IF brand \in {"Hermes", "Chanel"} THEN 5000 ELSE 1500

ClaimedMultiplier(score) ==
    << 10, 40, 65, 85, 100 >>[score]

\* The signals of the running sweep: those it has computed and those it returns.
EmittedSignals ==
    { signals[j] : j \in 1..Len(signals) } \cup { result.value[j] : j \in 1..Len(result.value) }

\* C32: every signal a sweep computes or returns has the estimated value of its
\* brand's base value times its score's multiplier, the margin of that value
\* less the listed price, a positive margin, and status PENDING.
C32_SignalArithmetic ==
    \A s \in EmittedSignals :
        /\ s.conditionScore \in 1..5
        /\ s.estimatedValue * 100 = ClaimedBase(s.brandCategory) * ClaimedMultiplier(s.conditionScore)
        /\ s.profitMargin = s.estimatedValue - s.listedPrice
        /\ s.profitMargin > 0
        /\ s.status = "PENDING"

\* A sweep returns two signals: a Chanel listing in used condition at 2499
\* (estimated 3250, margin 751) and one listed at 0.
C32_Witness ==
    /\ pc = "done"
    /\ Len(result.value) = 2
    /\ \E j \in 1..2 : result.value[j].listedPrice = 2499 /\ result.value[j].profitMargin = 751
    /\ \E j \in 1..2 : result.value[j].listedPrice = 0

\* C33: the step in which the insert succeeds adds to the store exactly the
\* signals the sweep returns, each of them new; the step in which it fails adds
\* none, and the sweep then returns the empty list; no other step of a sweep
\* writes the signal table, and a sweep that ends without insert returns the
\* empty list.
C33_ReturnedIsStored ==
    [][/\ (pc = "insert" /\ pc' = "done") =>
             /\ { result'.value[j] : j \in 1..Len(result'.value) } = nexus_signals' \ nexus_signals
             /\ Len(result'.value) = Cardinality(nexus_signals' \ nexus_signals)
             /\ nexus_signals \subseteq nexus_signals'
       /\ (pc = "insert" /\ pc' = "catch") => nexus_signals' = nexus_signals
       /\ (pc = "catch" /\ pc' = "done") => (result'.value = <<>> /\ nexus_signals' = nexus_signals)
       /\ (pc = "evaluate" /\ pc' = "done") => (result'.value = <<>> /\ nexus_signals' = nexus_signals)
       /\ nexus_signals' # nexus_signals => pc = "insert"
      ]_vars

\* A sweep's insert has failed on a signal an earlier sweep stored: the sweep
\* returns the empty list, and the new signal of its batch is not stored.
C33_Witness ==
    /\ pc = "done"
    /\ errorMsg = DuplicateKeyError
    /\ result.value = <<>>
    /\ Len(signals) = 2
    /\ \E j \in 1..2 : signals[j] \in nexus_signals
    /\ \E j \in 1..2 : \A r \in nexus_signals : r.id # signals[j].id

\* A listing of a target brand that has no price, or the price 0.
Unpriced(item) ==
    /\ item.hasTitle
    /\ \E k \in 1..Len(TARGET_BRANDS) : Includes(item.title, TARGET_BRANDS[k])
    /\ ~item.hasPrice \/ item.price = 0

\* C34: when a sweep has evaluated a response, every listing of a target brand
\* without price, or with price 0, has a signal with listed price 0 whose margin
\* is its estimated value; no sweep ends without signal over such a listing.
C34_UnpricedAdmitted ==
    /\ pc = "insert" =>
          \A i \in 1..Len(response.items) :
             Unpriced(response.items[i]) =>
                \E j \in 1..Len(signals) :
                   /\ signals[j].targetName = response.items[i].title
                   /\ signals[j].listedPrice = 0
                   /\ signals[j].profitMargin = signals[j].estimatedValue
    /\ (pc = "done" /\ errorMsg = "" /\ result.value = <<>>) =>
          \A i \in 1..Len(response.items) : ~Unpriced(response.items[i])

\* A sweep over one listing, of a target brand and without price, has returned
\* its signal, whose margin is its estimated value.
C34_Witness ==
    /\ pc = "done"
    /\ Len(response.items) = 1
    /\ ~response.items[1].hasPrice
    /\ Len(result.value) = 1
    /\ result.value[1].listedPrice = 0
    /\ result.value[1].profitMargin = result.value[1].estimatedValue

\* The sum of the backoff delays waited so far.
RECURSIVE SumFrom(_, _)
SumFrom(ds, i) ==
    IF i > Len(ds) THEN 0 ELSE ds[i] + SumFrom(ds, i + 1)

\* C37: a fetch makes at most three requests and at most three bypass
\* invocations and waits at most 3000 ms of backoff in all; a sweep never steps
\* back in the order of its states; and every sweep that has been started ends:
\* it reaches DONE, or, without store credentials, has thrown at its entry.
C37_SweepTerminates ==
    /\ [](/\ Len(statuses) <= 3
          /\ Len(bypasses) <= 3
          /\ attempt <= 3
          /\ Len(delays) <= 2
          /\ SumFrom(delays, 1) <= 3000
          /\ pc = "thrown" => ~credentials)
    /\ [][pc \notin {"idle", "done", "thrown"} => Phase(pc') >= Phase(pc)]_vars
    /\ (pc # "idle") ~> (pc \in {"done", "thrown"})
    /\ (pc = "select") ~> (pc = "done")

\* A fetch has ended by its longest way, three blocked requests, three bypasses
\* without data and both backoff delays, and has returned no data to its sweep.
C37_Witness ==
    /\ pc = "evaluate"
    /\ Len(statuses) = 3
    /\ Len(bypasses) = 3
    /\ SumFrom(delays, 1) = 3000
    /\ response = NoData

\* C36, as claimed: the summary of a completed fleet sync reports as tested the
\* number of endpoints the sync probed, and activeFound <= tested <= scrapedTotal.
C36_SummaryCounts ==
    [][(spc = "log" /\ spc' = "idle") =>
          \A s \in summary' :
              /\ s.tested = Len(targetBatch)
              /\ s.activeFound <= s.tested
              /\ s.tested <= s.scrapedTotal]_vars

\* C35: validateBatch returns, whatever its probes do, and what it returns has one
\* node per endpoint of its input, in the input's order, with the endpoint as id
\* and status ACTIVE or DEAD; while it runs, the nodes so far are those of the
\* groups done.
C35_OneNodePerEndpoint ==
    /\ [](/\ spc \in {"persist", "log", "returned", "thrown"} =>
                Len(results) = Len(targetBatch)
          /\ spc = "validate" => Len(results) = vi /\ vi < Len(targetBatch)
          /\ \A k \in 1..Len(results) :
                /\ results[k].id = Split(targetBatch[k])
                /\ results[k].status \in {"ACTIVE", "DEAD"})
    /\ (spc = "validate") ~> (spc \in {"persist", "returned", "thrown"})

\* validateBatch has returned three nodes, of two groups, one of a failed probe
\* and one of a probe that succeeded.
C35_Witness ==
    /\ spc = "persist"
    /\ Len(targetBatch) = 3
    /\ Len(results) = 3
    /\ \E k \in 1..3 : results[k].status = "DEAD"
    /\ \E k \in 1..3 : results[k].status = "ACTIVE"

\* C31, as claimed: when the dashboard's handler takes an INSERT event of a
\* PENDING signal, an execute request for that signal is started if God Mode is
\* enabled at that time, and none is started if it is disabled.
C31_GodModeAutoExecutes ==
    [][(page = "subscribed" /\ page' = "subscribed" /\ notices # <<>> /\ notices' = Tail(notices)
            /\ Head(notices).eventType = "INSERT" /\ Head(notices).new.status = "PENDING") =>
          IF isGodMode
          THEN /\ Head(notices).new.id \in DOMAIN executing'
               /\ executing'[Head(notices).new.id] = "LOADING"
          ELSE executing' = executing]_vars

====
